---- MODULE Spec2Model ----
(***************************************************************************)
(* The capture / enhance / analyze / persist pipeline of the upload screen *)
(* (src/upload.tsx) together with the streaming analysis endpoint it calls *)
(* (src/unnamed/part_001, the Express routes).                             *)
(*                                                                         *)
(* React state is held in the variables step, images, selectedIdx,         *)
(* useEnhanced, result, error and streamingText.  Every async handler is   *)
(* cut at its awaits on the outside world (picker, enhance request,        *)
(* key store, analysis request, stream read, draft store); the code        *)
(* between two such awaits runs to completion in one action, and a         *)
(* handler keeps the values of step, images and useEnhanced it closed over *)
(* when it was invoked.                                                    *)
(***************************************************************************)
EXTENDS Integers, Sequences, FiniteSets, Bags, TLC


\* ------------------------------------------------------------------ bounds
MAX_IMAGES == 5

\* invocations of capturePhoto / pickFromGallery in flight at once
MaxOps == 2
\* invocations of proceedToAnalyze in flight at once
MaxRuns == 1
\* images created in one behaviour of Spec
MaxNew == 2
\* assets one gallery pick returns in Spec (never more than selectionLimit)
MaxPick == 2
\* drafts written in one behaviour
MaxDrafts == 1

\* SpecRace: two presses of the analyze button, one image
RaceOps == 1
RaceRuns == 2
RaceNew == 1

\* SpecCap: adding only, up to one image more than MAX_IMAGES
CapOps == 2
CapNew == 6
CapPick == 5

\* SpecStream: event lines in one stream
MaxEvents == 3

\* SpecRemove: ids an image may bear
MaxRemoveId == 4
MaxChunkEvents == 2

\* SpecDrafts: ids a stored draft may bear
MaxStored == 5

\* ------------------------------------------------------------------ values
Null == <<"null", 0>>

Min(a, b) == IF a < b THEN a ELSE b
Max(a, b) == IF a > b THEN a ELSE b

\* ------------------------------------------------------------------ state
VARIABLES
    step,           \* useState<Step>
    images,         \* useState<ImageItem[]>
    selectedIdx,    \* useState(0), 0-based as in the source
    useEnhanced,    \* useState<Record<string, boolean>>
    result,         \* useState<ListingDraft | null>
    error,          \* useState<string | null>
    streamingText,  \* useState("")
    alert,          \* the Alert.alert dialog on screen, "none" when there is none
    apiKey,         \* the stored credential (lib/storage)
    drafts,         \* the draft store (lib/storage), in write order
    nextId,         \* Crypto.randomUUID(): ids never repeat
    feed,           \* the event lines of one response: given in SpecStream, written
                    \* one by one in SpecEndpoint
    openai,         \* SpecEndpoint only: what `openai` does with the request served
    ops,            \* bag of the invocations of capturePhoto / pickFromGallery in flight
    runs            \* bag of the invocations of proceedToAnalyze in flight

vars == <<step, images, selectedIdx, useEnhanced, result, error,
          streamingText, alert, apiKey, drafts, nextId, feed, openai, ops, runs>>

session == <<step, images, selectedIdx, useEnhanced, result, error, streamingText>>

\* what no handler of the screen writes, apart from the draft store
fixed == <<nextId, feed, openai>>

\* ------------------------------------------------------------------ images
\* const newItem: ImageItem = {...} in addImageFromResult
NewItem(id, hasBase64) ==
    [id |-> id,
     originalUri |-> <<"orig", id>>,
     originalBase64 |-> IF hasBase64 THEN <<"raw", id>> ELSE Null,
     enhancedUri |-> Null,
     enhancedBase64 |-> Null,
     enhancing |-> hasBase64,
     enhanceFailed |-> FALSE]

\* prev.map(img => img.id === id ? {...img, enhancing: false, enhanceFailed: true} : img)
MarkFailed(imgs, id) ==
    [i \in DOMAIN imgs |->
        IF imgs[i].id = id
        THEN [imgs[i] EXCEPT !.enhancing = FALSE, !.enhanceFailed = TRUE]
        ELSE imgs[i]]

\* a success that stores the display reference without the enhanced bytes
MarkEnhancedUriOnly(imgs, id) ==
    [i \in DOMAIN imgs |->
        IF imgs[i].id = id
        THEN [imgs[i] EXCEPT !.enhancedUri = <<"enh", id>>,
                             !.enhancing = FALSE]
        ELSE imgs[i]]

\* prev.map(img => img.id === id ? {...img, originalBase64: ..., enhancedBase64: ...,
\*                                  enhancedUri: ..., enhancing: false} : img)
MarkEnhanced(imgs, id) ==
    [i \in DOMAIN imgs |->
        IF imgs[i].id = id
        THEN [imgs[i] EXCEPT !.originalBase64 = <<"conv", id>>,
                             !.enhancedBase64 = <<"enhB64", id>>,
                             !.enhancedUri = <<"enh", id>>,
                             !.enhancing = FALSE]
        ELSE imgs[i]]

\* {...prev, [id]: v}
SetFlag(flags, id, v) ==
    [k \in (DOMAIN flags) \cup {id} |-> IF k = id THEN v ELSE flags[k]]

\* const next = {...prev}; delete next[id]
DeleteFlag(flags, id) ==
    [k \in (DOMAIN flags) \ {id} |-> flags[k]]

\* prev.filter(img => img.id !== id)
WithoutId(imgs, id) == SelectSeq(imgs, LAMBDA img : img.id # id)

\* images.some(img => img.enhancing)
AnyEnhancing(imgs) == \E i \in DOMAIN imgs : imgs[i].enhancing

EmptyFlags == [k \in {} |-> TRUE]

\* ------------------------------------------------------------ JS values
\* A JS string is the sequence of its characters; a value of a parsed JSON
\* object is <<"str", chars>> or <<"num", n>>; a missing field is Undefined.
Undefined == <<"undefined", 0>>
Str(chars) == <<"str", chars>>
Num(n) == <<"num", n>>

\* obj.key
Get(obj, key) == IF key \in DOMAIN obj THEN obj[key] ELSE Undefined

\* the values JavaScript's || and ! treat as false
Falsy(v) == v \in {Undefined, Null, Str(<<>>), Num(0)}

\* v || d
OrElse(v, d) == IF Falsy(v) THEN d ELSE v

\* a spread in which the keys already there keep their values
SpreadKeepsFirst(a, b) ==
    [k \in (DOMAIN a) \cup (DOMAIN b) |-> IF k \in DOMAIN a THEN a[k] ELSE b[k]]

\* {...a, ...b}
Spread(a, b) ==
    [k \in (DOMAIN a) \cup (DOMAIN b) |-> IF k \in DOMAIN b THEN b[k] ELSE a[k]]

EmptyObj == [k \in {} |-> Undefined]

\* String.prototype.toLowerCase on the characters the model uses
LowerOf ==
    ("N" :> "n" @@
     "G" :> "g" @@
     "L" :> "l" @@
     "V" :> "v" @@
     "S" :> "s" @@
     "T" :> "t" @@
     "U" :> "u" @@
     "C" :> "c" @@
     "K" :> "k" @@
     "F" :> "f" @@
     "W" :> "w" @@
     "H" :> "h")

ToLowerCase(s) == [i \in DOMAIN s |-> IF s[i] \in DOMAIN LowerOf THEN LowerOf[s[i]] ELSE s[i]]

\* String.prototype.includes
Includes(s, key) ==
    \E i \in 0..(Len(s) - Len(key)) : \A j \in 1..Len(key) : s[i + j] = key[j]

\* ------------------------------------------------------------ pricing
\* brandPrices, in the order Object.entries enumerates them
brandPrices ==
    << <<<<"n", "i", "k", "e">>, 22>>,
       <<<<"a", "d", "i", "d", "a", "s">>, 20>>,
       <<<<"z", "a", "r", "a">>, 12>>,
       <<<<"h", "&", "m">>, 8>>,
       <<<<"g", "u", "c", "c", "i">>, 95>>,
       <<<<"p", "r", "a", "d", "a">>, 85>>,
       <<<<"r", "a", "l", "p", "h", " ", "l", "a", "u", "r", "e", "n">>, 30>>,
       <<<<"l", "e", "v", "i">>, 18>>,
       <<<<"u", "n", "i", "q", "l", "o">>, 10>>,
       <<<<"g", "a", "p">>, 9>>,
       <<<<"n", "o", "r", "t", "h", " ", "f", "a", "c", "e">>, 35>>,
       <<<<"p", "a", "t", "a", "g", "o", "n", "i", "a">>, 40>>,
       <<<<"c", "a", "r", "h", "a", "r", "t", "t">>, 28>>,
       <<<<"t", "o", "m", "m", "y", " ", "h", "i", "l", "f", "i", "g", "e", "r">>, 25>>,
       <<<<"s", "u", "p", "e", "r", "d", "r", "y">>, 16>>,
       <<<<"p", "r", "i", "m", "a", "r", "k">>, 5>>,
       <<<<"a", "s", "o", "s">>, 8>>,
       <<<<"r", "i", "v", "e", "r", " ", "i", "s", "l", "a", "n", "d">>, 10>>,
       <<<<"t", "o", "p", "s", "h", "o", "p">>, 12>>,
       <<<<"t", "e", "d", " ", "b", "a", "k", "e", "r">>, 25>>,
       <<<<"b", "u", "r", "b", "e", "r", "r", "y">>, 75>>,
       <<<<"b", "a", "r", "b", "o", "u", "r">>, 45>> >>

\* conditionMultipliers, in hundredths
conditionMultipliers ==
    << <<<<"n", "e", "w", " ", "w", "i", "t", "h", " ", "t", "a", "g", "s">>, 100>>,
       <<<<"l", "i", "k", "e", " ", "n", "e", "w">>, 85>>,
       <<<<"v", "e", "r", "y", " ", "g", "o", "o", "d">>, 70>>,
       <<<<"g", "o", "o", "d">>, 55>>,
       <<<<"s", "a", "t", "i", "s", "f", "a", "c", "t", "o", "r", "y">>, 40>> >>

\* the loop without its break: the last matching key wins
FirstMatchNoBreak(table, s, default) ==
    LET hits == {k \in DOMAIN table : Includes(s, table[k][1])}
    IN  IF hits = {} THEN default
        ELSE table[CHOOSE k \in hits : \A j \in hits : j <= k][2]

\* for (const [key, v] of Object.entries(table)) if (s.includes(key)) { x = v; break; }
RECURSIVE FirstMatch(_, _, _)
FirstMatch(table, s, default) ==
    IF table = <<>> THEN default
    ELSE IF Includes(s, Head(table)[1]) THEN Head(table)[2]
    ELSE FirstMatch(Tail(table), s, default)

\* Math.round of a non-negative number given in hundredths
RoundHundredths(h) == (h + 50) \div 100

\* pricing without the floor of 3 under maxProfit
generateUKPricingNoFloor(brand, condition, rnd5, rnd20) ==
    LET basePrice == FirstMatch(brandPrices, ToLowerCase(brand), 15)
        condMult == FirstMatch(conditionMultipliers, ToLowerCase(condition), 70)
        maxProfit == RoundHundredths(basePrice * condMult + rnd5)
        quickSell == Max(2, RoundHundredths(maxProfit * 65))
        bonus == IF basePrice > 20 THEN 10 ELSE 0
        baseProbability ==
            Min(99, Max(15, RoundHundredths(60 * condMult + rnd20 + bonus * 100)))
    IN  [quickSellPrice |-> Num(quickSell), maxProfitPrice |-> Num(maxProfit),
         sellProbability |-> Num(baseProbability)]

\* generateUKPricing(brand, condition); rnd5 and rnd20 are the values of
\* Math.random() * 5 and Math.random() * 20, in hundredths
generateUKPricing(brand, condition, rnd5, rnd20) ==
    LET basePrice == FirstMatch(brandPrices, ToLowerCase(brand), 15)
        condMult == FirstMatch(conditionMultipliers, ToLowerCase(condition), 70)
        maxProfit == Max(3, RoundHundredths(basePrice * condMult + rnd5))
        quickSell == Max(2, RoundHundredths(maxProfit * 65))
        bonus == IF basePrice > 20 THEN 10 ELSE 0
        baseProbability ==
            Min(99, Max(15, RoundHundredths(60 * condMult + rnd20 + bonus * 100)))
    IN  [quickSellPrice |-> Num(quickSell), maxProfitPrice |-> Num(maxProfit),
         sellProbability |-> Num(baseProbability)]

\* ------------------------------------------------------------ messages
\* An error message is a sequence of pieces; ":" and " " are pieces of their
\* own wherever the code looks for them, and so is "JSON".
NoError == <<"<null>">>
MsgNoKey == <<"Please set your OpenAI API key in Settings first.">>
MsgNoValid == <<"No valid images to analyze.">>
MsgDefault == <<"Analysis failed. Please try again.">>
MsgAnalysisFailed == <<"Analysis failed">>
MsgNoStreaming == <<"Streaming not supported">>
MsgNoResult == <<"No result received from AI">>
MsgParse == <<"Failed to parse AI response">>
MsgInvalidKey == <<"Invalid API key">>
MsgNullBrand == <<"Cannot read properties of null (reading 'brand')">>
\* res.status(400).json({ error: "At least one image and API key are required" })
Body400 == <<"{\"error\"", ":", "\"At least one image and API key are required\"}">>

\* messages of the outside world: a transport failure, a backend error whose
\* text holds ": ", a gateway's error text, a failing draft store
MsgNetwork == <<"Network request failed">>
MsgQuota == <<"429 Rate limit reached", ":", " ", "retry later">>
MsgStore == <<"Failed to write draft">>
MsgGateway == <<"Bad Gateway", ":", " ", "upstream timed out">>
\* an error of the backend whose text holds "JSON"
MsgBadPayload == <<"We could not parse the ", "JSON", " body of your request.">>
\* res.status(err?.status || 500).json({ error: message }), sent by the
\* route's catch block while the headers are not yet sent
Body500 == <<"{\"error\"", ":", "\"Analysis failed\"}">>

\* msg.includes(piece)
MsgHas(msg, piece) == \E i \in DOMAIN msg : msg[i] = piece

\* msg.split(": ").slice(1).join(": "): what follows the first ": ", and the
\* empty string when msg holds no ": "
AfterFirstColonSpace(msg) ==
    LET at == {i \in 1..(Len(msg) - 1) : msg[i] = ":" /\ msg[i + 1] = " "}
    IN  IF at = {} THEN <<>>
        ELSE LET first == CHOOSE i \in at : \A j \in at : i <= j
             IN  SubSeq(msg, first + 2, Len(msg))

\* a catch block that hands setError nothing to show
DisplayedErrorBlank(message) == <<>>

\* the catch block of proceedToAnalyze: the text handed to setError
\*   const msg = err?.message || "Analysis failed. Please try again.";
\*   msg.includes(":") ? msg.split(": ").slice(1).join(": ") : msg
DisplayedError(message) ==
    LET msg == IF message = <<>> THEN MsgDefault ELSE message
    IN  IF MsgHas(msg, ":") THEN AfterFirstColonSpace(msg) ELSE msg

\* ------------------------------------------------------------ model output
\* The text of the model is a sequence of pieces: braces, `"key":` pieces,
\* string and number values, code-fence markers, whitespace, the literal
\* null, and words of prose.
LBrace == <<"sym", "{">>
RBrace == <<"sym", "}">>
Key(k) == <<"key", k>>
FenceJson == <<"fence", "json">>
Fence == <<"fence", "">>
Newline == <<"ws", "n">>
Space == <<"ws", " ">>
LitNull == <<"lit", "null">>
Word(w) == <<"word", w>>

RECURSIVE Concat(_)
Concat(seqs) == IF seqs = <<>> THEN <<>> ELSE Head(seqs) \o Concat(Tail(seqs))

\* text.replace(/<marker>\n?/g, ""): every marker goes, with the newline after it
RECURSIVE StripMarker(_, _)
StripMarker(text, marker) ==
    IF text = <<>> THEN <<>>
    ELSE IF Head(text) = marker
         THEN IF Len(text) >= 2 /\ text[2] = Newline
              THEN StripMarker(SubSeq(text, 3, Len(text)), marker)
              ELSE StripMarker(Tail(text), marker)
         ELSE <<Head(text)>> \o StripMarker(Tail(text), marker)

IsSpace(piece) == piece[1] = "ws"

\* String.prototype.trim
RECURSIVE TrimStart(_)
TrimStart(text) ==
    IF text # <<>> /\ IsSpace(Head(text)) THEN TrimStart(Tail(text)) ELSE text

RECURSIVE TrimEnd(_)
TrimEnd(text) ==
    IF text # <<>> /\ IsSpace(text[Len(text)])
    THEN TrimEnd(SubSeq(text, 1, Len(text) - 1))
    ELSE text

Trim(text) == TrimEnd(TrimStart(text))

\* fullContent.replace(/```json\n?/g, "").replace(/```\n?/g, "").trim()
CleanContent(text) == Trim(StripMarker(StripMarker(text, FenceJson), Fence))

IsValue(piece) == piece[1] \in {"str", "num"}

\* the object of a list of key / value pieces; a repeated key keeps its last value
RECURSIVE ObjOf(_)
ObjOf(pairs) ==
    IF pairs = <<>> THEN EmptyObj
    ELSE LET rest == ObjOf(SubSeq(pairs, 1, Len(pairs) - 2))
             k == pairs[Len(pairs) - 1][2]
             v == pairs[Len(pairs)]
         IN  [x \in (DOMAIN rest) \cup {k} |-> IF x = k THEN v ELSE rest[x]]

\* JSON.parse: ok is FALSE where it throws; the value is null or an object
JSONParse(text) ==
    LET t == SelectSeq(text, LAMBDA piece : ~IsSpace(piece))
        n == Len(t)
    IN  IF n = 1 /\ t[1] = LitNull
        THEN [ok |-> TRUE, isNull |-> TRUE, obj |-> EmptyObj]
        ELSE IF /\ n >= 2
                /\ n % 2 = 0
                /\ t[1] = LBrace
                /\ t[n] = RBrace
                /\ \A i \in 2..(n - 1) :
                      IF i % 2 = 0 THEN t[i][1] = "key" ELSE IsValue(t[i])
             THEN [ok |-> TRUE, isNull |-> FALSE, obj |-> ObjOf(SubSeq(t, 2, n - 1))]
             ELSE [ok |-> FALSE, isNull |-> FALSE, obj |-> EmptyObj]

\* ------------------------------------------------------------ stream events
\* One `data: {...}` line.  An absent delta or error is the empty sequence
\* (the client tests both for truthiness); garbled marks a line whose JSON
\* the client cannot parse.
Event(delta, hasResult, res, err, done) ==
    [delta |-> delta, hasResult |-> hasResult, result |-> res,
     error |-> err, done |-> done, garbled |-> FALSE]

DeltaEvent(delta) == Event(delta, FALSE, EmptyObj, <<>>, FALSE)
ResultEvent(res) == Event(<<>>, TRUE, res, <<>>, TRUE)
ErrorEvent(message) == Event(<<>>, FALSE, EmptyObj, message, TRUE)

\* ------------------------------------------------------------ the endpoint
\* What the backend does with one request: the chunks of content it streams,
\* whether openai.chat.completions.create throws ("create") or the iteration
\* of the stream throws after `after` chunks ("stream"), the thrown error's
\* status and message, and the two random draws of the pricing.
Backend(fail, after, status, message, chunks, rnd5, rnd20) ==
    [fail |-> fail, after |-> after, status |-> status, message |-> message,
     chunks |-> chunks, rnd5 |-> rnd5, rnd20 |-> rnd20]

\* a backend that is not called
NoBackend == Backend("none", 0, 0, <<>>, <<>>, 0, 0)

\* the catch block of the route: the message sent to the client
RouteErrorMessage(status, message) ==
    IF status = 401 THEN MsgInvalidKey
    ELSE IF message = <<>> THEN MsgAnalysisFailed ELSE message

\* deltas written only for chunks that hold more than code-fence markers
DeltaEventsSkipFences(chunks) ==
    LET written == SelectSeq(chunks, LAMBDA d : \E i \in DOMAIN d : d[i][1] # "fence")
    IN  [i \in DOMAIN written |-> DeltaEvent(written[i])]

\* for await (const chunk of stream) { if (delta) { fullContent += delta; res.write(...) } }
DeltaEvents(chunks) ==
    LET nonEmpty == SelectSeq(chunks, LAMBDA d : d # <<>>)
    IN  [i \in DOMAIN nonEmpty |-> DeltaEvent(nonEmpty[i])]

\* the streaming route without the `return` after its parse-failure line
AnalyzeStreamNoReturn(req, b) ==
    IF Len(req.images) = 0 \/ req.apiKey = ""
    THEN [status |-> 400, body |-> Body400, events |-> <<>>, contacted |-> FALSE,
          malformed |-> FALSE]
    ELSE LET delivered == IF b.fail = "stream" THEN SubSeq(b.chunks, 1, b.after)
                          ELSE b.chunks
             parsed == JSONParse(CleanContent(Concat(delivered)))
             pricing == generateUKPricing(
                            OrElse(Get(parsed.obj, "brand"), Str(<<>>))[2],
                            OrElse(Get(parsed.obj, "condition"), Str(<<>>))[2],
                            b.rnd5, b.rnd20)
             finalResult == Spread(Spread(parsed.obj, pricing),
                                   [suggestedPrice |-> pricing.maxProfitPrice])
             terminal ==
                 IF b.fail = "stream"
                 THEN <<ErrorEvent(RouteErrorMessage(b.status, b.message))>>
                 ELSE IF ~parsed.ok THEN <<ErrorEvent(MsgParse), ResultEvent(finalResult)>>
                 ELSE IF parsed.isNull THEN <<ErrorEvent(RouteErrorMessage(0, MsgNullBrand))>>
                 ELSE <<ResultEvent(finalResult)>>
         IN  [status |-> 200, body |-> <<>>, contacted |-> TRUE,
              malformed |-> (b.fail = "none" /\ ~parsed.ok),
              events |-> IF b.fail = "create"
                         THEN <<ErrorEvent(RouteErrorMessage(b.status, b.message))>>
                         ELSE DeltaEvents(delivered) \o terminal]

\* app.post("/api/analyze-stream"): the response to req from a backend that
\* behaves as b.  contacted tells whether the backend was called at all,
\* malformed whether JSON.parse threw on the model's full text.
AnalyzeStream(req, b) ==
    IF Len(req.images) = 0 \/ req.apiKey = ""
    THEN [status |-> 400, body |-> Body400, events |-> <<>>, contacted |-> FALSE,
          malformed |-> FALSE]
    ELSE LET delivered == IF b.fail = "stream" THEN SubSeq(b.chunks, 1, b.after)
                          ELSE b.chunks
             parsed == JSONParse(CleanContent(Concat(delivered)))
             pricing == generateUKPricing(
                            OrElse(Get(parsed.obj, "brand"), Str(<<>>))[2],
                            OrElse(Get(parsed.obj, "condition"), Str(<<>>))[2],
                            b.rnd5, b.rnd20)
             finalResult == Spread(Spread(parsed.obj, pricing),
                                   [suggestedPrice |-> pricing.maxProfitPrice])
             terminal ==
                 IF b.fail = "stream" THEN ErrorEvent(RouteErrorMessage(b.status, b.message))
                 ELSE IF ~parsed.ok THEN ErrorEvent(MsgParse)
                 ELSE IF parsed.isNull THEN ErrorEvent(RouteErrorMessage(0, MsgNullBrand))
                 ELSE ResultEvent(finalResult)
         IN  [status |-> 200, body |-> <<>>, contacted |-> TRUE,
              malformed |-> (b.fail = "none" /\ ~parsed.ok),
              events |-> IF b.fail = "create"
                         THEN <<ErrorEvent(RouteErrorMessage(b.status, b.message))>>
                         ELSE DeltaEvents(delivered) \o <<terminal>>]

\* the non-streaming route parsing the content as it comes, fences and all
AnalyzeUnstripped(req, b) ==
    IF Len(req.images) = 0 \/ req.apiKey = ""
    THEN [status |-> 400, error |-> <<"At least one image and API key are required">>,
          hasResult |-> FALSE, result |-> EmptyObj, contacted |-> FALSE]
    ELSE LET parsed == JSONParse(Concat(b.chunks))
             pricing == generateUKPricing(
                            OrElse(Get(parsed.obj, "brand"), Str(<<>>))[2],
                            OrElse(Get(parsed.obj, "condition"), Str(<<>>))[2],
                            b.rnd5, b.rnd20)
             failed(status, message) ==
                 [status |-> status, error |-> message, hasResult |-> FALSE,
                  result |-> EmptyObj, contacted |-> TRUE]
         IN  IF b.fail # "none"
             THEN failed(IF b.status = 0 THEN 500 ELSE b.status,
                         RouteErrorMessage(b.status, b.message))
             ELSE IF ~parsed.ok THEN failed(500, MsgParse)
             ELSE IF parsed.isNull THEN failed(500, MsgNullBrand)
             ELSE [status |-> 200, error |-> <<>>, hasResult |-> TRUE,
                   result |-> Spread(Spread(parsed.obj, pricing),
                                     [suggestedPrice |-> pricing.maxProfitPrice]),
                   contacted |-> TRUE]

\* app.post("/api/analyze"): the JSON response to req from a backend that
\* behaves as b (a backend failing while it generates fails the one create
\* call here).  The request's images are req.images, or the one imageBase64.
Analyze(req, b) ==
    IF Len(req.images) = 0 \/ req.apiKey = ""
    THEN [status |-> 400, error |-> <<"At least one image and API key are required">>,
          hasResult |-> FALSE, result |-> EmptyObj, contacted |-> FALSE]
    ELSE LET parsed == JSONParse(CleanContent(Concat(b.chunks)))
             pricing == generateUKPricing(
                            OrElse(Get(parsed.obj, "brand"), Str(<<>>))[2],
                            OrElse(Get(parsed.obj, "condition"), Str(<<>>))[2],
                            b.rnd5, b.rnd20)
             failed(status, message) ==
                 [status |-> status, error |-> message, hasResult |-> FALSE,
                  result |-> EmptyObj, contacted |-> TRUE]
         IN  IF b.fail # "none"
             THEN failed(IF b.status = 0 THEN 500 ELSE b.status,
                         RouteErrorMessage(b.status, b.message))
             ELSE IF ~parsed.ok THEN failed(500, MsgParse)
             ELSE IF parsed.isNull THEN failed(500, MsgNullBrand)
             ELSE [status |-> 200, error |-> <<>>, hasResult |-> TRUE,
                   result |-> Spread(Spread(parsed.obj, pricing),
                                     [suggestedPrice |-> pricing.maxProfitPrice]),
                   contacted |-> TRUE]

\* ------------------------------------------------------------ the draft
NoDraft == [id |-> <<"draft", 0>>]

\* a choice that takes the enhanced reference whenever there is one
ChosenUriIgnoresFlag(img, flags) ==
    IF img.enhancedUri # Null THEN img.enhancedUri ELSE img.originalUri

\* useEnhanced[img.id] && img.enhancedUri ? img.enhancedUri : img.originalUri
ChosenUri(img, flags) ==
    IF img.id \in DOMAIN flags /\ flags[img.id] /\ img.enhancedUri # Null
    THEN img.enhancedUri
    ELSE img.originalUri

\* a draft that lists the primary reference only
BuildDraftPrimaryOnly(id, finalResult, imgs, flags) ==
    [id |-> id,
     imageUri |-> ChosenUri(imgs[1], flags),
     imageUris |-> <<ChosenUri(imgs[1], flags)>>,
     brand |-> OrElse(Get(finalResult, "brand"), Str(<<"U", "n", "k", "n", "o", "w", "n">>)),
     category |-> OrElse(Get(finalResult, "category"), Str(<<"C", "l", "o", "t", "h", "i", "n", "g">>)),
     title |-> OrElse(Get(finalResult, "title"), Str(<<"U", "n", "t", "i", "t", "l", "e", "d">>)),
     material |-> OrElse(Get(finalResult, "material"), Str(<<"U", "n", "k", "n", "o", "w", "n">>)),
     condition |-> OrElse(Get(finalResult, "condition"), Str(<<"G", "o", "o", "d">>)),
     conditionScore |-> OrElse(Get(finalResult, "conditionScore"),
                               OrElse(Get(finalResult, "condition"), Str(<<"G", "o", "o", "d">>))),
     flaws |-> OrElse(Get(finalResult, "flaws"), Str(<<"N", "o", " ", "v", "i", "s", "i", "b", "l", "e", " ", "f", "l", "a", "w", "s", " ", "d", "e", "t", "e", "c", "t", "e", "d">>)),
     description |-> OrElse(Get(finalResult, "description"), Str(<<>>)),
     sellProbability |-> OrElse(Get(finalResult, "sellProbability"), Num(50)),
     quickSellPrice |-> OrElse(Get(finalResult, "quickSellPrice"), Num(5)),
     maxProfitPrice |-> OrElse(Get(finalResult, "maxProfitPrice"), Num(10)),
     suggestedPrice |-> OrElse(Get(finalResult, "maxProfitPrice"), Num(10))]

\* a draft that takes the result's own suggestedPrice
BuildDraftOwnSuggested(id, finalResult, imgs, flags) ==
    [id |-> id,
     imageUri |-> ChosenUri(imgs[1], flags),
     imageUris |-> [i \in DOMAIN imgs |-> ChosenUri(imgs[i], flags)],
     brand |-> OrElse(Get(finalResult, "brand"), Str(<<"U", "n", "k", "n", "o", "w", "n">>)),
     category |-> OrElse(Get(finalResult, "category"), Str(<<"C", "l", "o", "t", "h", "i", "n", "g">>)),
     title |-> OrElse(Get(finalResult, "title"), Str(<<"U", "n", "t", "i", "t", "l", "e", "d">>)),
     material |-> OrElse(Get(finalResult, "material"), Str(<<"U", "n", "k", "n", "o", "w", "n">>)),
     condition |-> OrElse(Get(finalResult, "condition"), Str(<<"G", "o", "o", "d">>)),
     conditionScore |-> OrElse(Get(finalResult, "conditionScore"),
                               OrElse(Get(finalResult, "condition"), Str(<<"G", "o", "o", "d">>))),
     flaws |-> OrElse(Get(finalResult, "flaws"), Str(<<"N", "o", " ", "v", "i", "s", "i", "b", "l", "e", " ", "f", "l", "a", "w", "s", " ", "d", "e", "t", "e", "c", "t", "e", "d">>)),
     description |-> OrElse(Get(finalResult, "description"), Str(<<>>)),
     sellProbability |-> OrElse(Get(finalResult, "sellProbability"), Num(50)),
     quickSellPrice |-> OrElse(Get(finalResult, "quickSellPrice"), Num(5)),
     maxProfitPrice |-> OrElse(Get(finalResult, "maxProfitPrice"), Num(10)),
     suggestedPrice |-> OrElse(Get(finalResult, "suggestedPrice"), Num(10))]

\* a draft that takes the result's brand as it is
BuildDraftBareBrand(id, finalResult, imgs, flags) ==
    [id |-> id,
     imageUri |-> ChosenUri(imgs[1], flags),
     imageUris |-> [i \in DOMAIN imgs |-> ChosenUri(imgs[i], flags)],
     brand |-> Get(finalResult, "brand"),
     category |-> OrElse(Get(finalResult, "category"), Str(<<"C", "l", "o", "t", "h", "i", "n", "g">>)),
     title |-> OrElse(Get(finalResult, "title"), Str(<<"U", "n", "t", "i", "t", "l", "e", "d">>)),
     material |-> OrElse(Get(finalResult, "material"), Str(<<"U", "n", "k", "n", "o", "w", "n">>)),
     condition |-> OrElse(Get(finalResult, "condition"), Str(<<"G", "o", "o", "d">>)),
     conditionScore |-> OrElse(Get(finalResult, "conditionScore"),
                               OrElse(Get(finalResult, "condition"), Str(<<"G", "o", "o", "d">>))),
     flaws |-> OrElse(Get(finalResult, "flaws"), Str(<<"N", "o", " ", "v", "i", "s", "i", "b", "l", "e", " ", "f", "l", "a", "w", "s", " ", "d", "e", "t", "e", "c", "t", "e", "d">>)),
     description |-> OrElse(Get(finalResult, "description"), Str(<<>>)),
     sellProbability |-> OrElse(Get(finalResult, "sellProbability"), Num(50)),
     quickSellPrice |-> OrElse(Get(finalResult, "quickSellPrice"), Num(5)),
     maxProfitPrice |-> OrElse(Get(finalResult, "maxProfitPrice"), Num(10)),
     suggestedPrice |-> OrElse(Get(finalResult, "maxProfitPrice"), Num(10))]

\* const draft: ListingDraft = {...} (createdAt, a clock reading, is left out)
BuildDraft(id, finalResult, imgs, flags) ==
    [id |-> id,
     imageUri |-> ChosenUri(imgs[1], flags),
     imageUris |-> [i \in DOMAIN imgs |-> ChosenUri(imgs[i], flags)],
     brand |-> OrElse(Get(finalResult, "brand"), Str(<<"U", "n", "k", "n", "o", "w", "n">>)),
     category |-> OrElse(Get(finalResult, "category"), Str(<<"C", "l", "o", "t", "h", "i", "n", "g">>)),
     title |-> OrElse(Get(finalResult, "title"), Str(<<"U", "n", "t", "i", "t", "l", "e", "d">>)),
     material |-> OrElse(Get(finalResult, "material"), Str(<<"U", "n", "k", "n", "o", "w", "n">>)),
     condition |-> OrElse(Get(finalResult, "condition"), Str(<<"G", "o", "o", "d">>)),
     conditionScore |-> OrElse(Get(finalResult, "conditionScore"),
                               OrElse(Get(finalResult, "condition"), Str(<<"G", "o", "o", "d">>))),
     flaws |-> OrElse(Get(finalResult, "flaws"), Str(<<"N", "o", " ", "v", "i", "s", "i", "b", "l", "e", " ", "f", "l", "a", "w", "s", " ", "d", "e", "t", "e", "c", "t", "e", "d">>)),
     description |-> OrElse(Get(finalResult, "description"), Str(<<>>)),
     sellProbability |-> OrElse(Get(finalResult, "sellProbability"), Num(50)),
     quickSellPrice |-> OrElse(Get(finalResult, "quickSellPrice"), Num(5)),
     maxProfitPrice |-> OrElse(Get(finalResult, "maxProfitPrice"), Num(10)),
     suggestedPrice |-> OrElse(Get(finalResult, "maxProfitPrice"), Num(10))]

\* a reader that takes any terminal line for a result
ProcessEventAnyDone(acc, ev) ==
    IF acc.thrown THEN acc
    ELSE IF ev.garbled THEN acc
    ELSE IF ev.error # <<>>
         THEN IF MsgHas(ev.error, "JSON") THEN acc
              ELSE [acc EXCEPT !.thrown = TRUE, !.message = ev.error]
    ELSE [acc EXCEPT !.text = acc.text \o ev.delta,
                     !.hasResult = acc.hasResult \/ ev.done,
                     !.result = IF ev.done /\ ev.hasResult THEN ev.result ELSE acc.result]

\* ------------------------------------------------------------ reading the stream
\* The body of `for (const line of lines)` for one event line.  acc holds
\* finalResult, the deltas appended to streamingText, and the error thrown
\* out of the loop, if any.
\*   - a line JSON.parse rejects throws a SyntaxError, whose message holds
\*     "JSON": the inner catch swallows it;
\*   - data.error throws new Error(data.error): the inner catch rethrows it
\*     unless its message holds "JSON";
\*   - a thrown event skips the delta and result it carries.
ProcessEvent(acc, ev) ==
    IF acc.thrown THEN acc
    ELSE IF ev.garbled THEN acc
    ELSE IF ev.error # <<>>
         THEN IF MsgHas(ev.error, "JSON") THEN acc
              ELSE [acc EXCEPT !.thrown = TRUE, !.message = ev.error]
    ELSE [acc EXCEPT !.text = acc.text \o ev.delta,
                     !.hasResult = acc.hasResult \/ (ev.done /\ ev.hasResult),
                     !.result = IF ev.done /\ ev.hasResult THEN ev.result ELSE acc.result]

RECURSIVE ProcessEvents(_, _)
ProcessEvents(acc, events) ==
    IF events = <<>> THEN acc
    ELSE ProcessEvents(ProcessEvent(acc, Head(events)), Tail(events))


\* ------------------------------------------------- capture and gallery pick
\* One invocation of capturePhoto ("camera") or pickFromGallery ("library"):
\* where it waits, the step it closed over, the picker's selectionLimit, the
\* assets still to add and the id of the image whose enhance request it
\* awaits.  (A camera capture is a pick of exactly one asset.)
NewOp(kind, cstep, limit) ==
    [kind |-> kind, pc |-> "picker", step |-> cstep, limit |-> limit,
     queue |-> <<>>, cur |-> 0]

\* bag b with one copy of old replaced by new
Replace(b, old, new) == (b (-) SetToBag({old})) (+) SetToBag({new})

\* bag b without one copy of old
Without(b, old) == b (-) SetToBag({old})

\* The picker's answers: 1..limit assets; data tells which of "with base64
\* data" (TRUE) and "without" (FALSE, asset.base64 || null) an asset may be.
AssetQueues(limit, data) ==
    UNION {[1..n -> data] : n \in 1..limit}

\* addImageFromResult up to its first await, repeated over the assets of one pick:
\* an asset without base64 is appended as failed and the caller goes on to the
\* next asset at once; an asset with base64 is appended as enhancing and the
\* handler waits for its enhance request.  cstep is the step the handler closed over.
RECURSIVE AddLoop(_, _, _, _, _, _)
AddLoop(imgs, flags, sel, id, queue, cstep) ==
    IF queue = <<>>
    THEN [images |-> imgs, useEnhanced |-> flags, selectedIdx |-> sel,
          nextId |-> id, cur |-> 0, queue |-> <<>>]
    ELSE LET hasBase64 == Head(queue)
             appended == Append(imgs, NewItem(id, hasBase64))
             sel2 == IF cstep = "capture" THEN 0 ELSE sel
             flags2 == SetFlag(flags, id, TRUE)
         IN  IF hasBase64
             THEN [images |-> appended, useEnhanced |-> flags2, selectedIdx |-> sel2,
                   nextId |-> id + 1, cur |-> id, queue |-> Tail(queue)]
             ELSE AddLoop(MarkFailed(appended, id), flags2, sel2, id + 1,
                          Tail(queue), cstep)

\* The rest of capturePhoto / pickFromGallery from the point where assets are
\* in hand (or one enhancement has just completed): add what is left, and once
\* every asset is added and enhanced, `if (step === "capture") setStep("review")`.
ContinueAdding(o, imgs, flags, queue) ==
    LET r == AddLoop(imgs, flags, selectedIdx, nextId, queue, o.step)
    IN  /\ images' = r.images
        /\ useEnhanced' = r.useEnhanced
        /\ selectedIdx' = r.selectedIdx
        /\ nextId' = r.nextId
        /\ IF r.cur # 0
           THEN /\ ops' = Replace(ops, o, [o EXCEPT !.pc = "enhancing", !.cur = r.cur,
                                                    !.queue = r.queue])
                /\ step' = step
           ELSE /\ ops' = Without(ops, o)
                /\ step' = IF o.step = "capture" THEN "review" ELSE step

\* The camera and gallery buttons are rendered on the capture screen, and on
\* the review screen while images.length < MAX_IMAGES.
AddButtonsShown ==
    \/ step = "capture"
    \/ step = "review" /\ Len(images) < MAX_IMAGES

\* A press reaches the screen only while no alert dialog covers it.
CanPress == alert = "none"

\* capturePhoto, to the launch of the camera (the permission request and the
\* camera are one wait: nothing of the session is read or written between them)
CapturePhoto(maxOps, maxNew) ==
    /\ CanPress
    /\ AddButtonsShown
    /\ BagCardinality(ops) < maxOps
    /\ nextId <= maxNew
    /\ IF Len(images) >= MAX_IMAGES
       THEN /\ alert' = "Limit Reached"
            /\ ops' = ops
       ELSE /\ alert' = alert
            /\ ops' = ops (+) SetToBag({NewOp("camera", step, 1)})
    /\ UNCHANGED <<session, apiKey, drafts, fixed, runs>>

\* pickFromGallery, to the launch of the image library
PickFromGallery(maxOps, maxNew) ==
    /\ CanPress
    /\ AddButtonsShown
    /\ BagCardinality(ops) < maxOps
    /\ nextId <= maxNew
    /\ LET remaining == MAX_IMAGES - Len(images)
       IN  IF remaining <= 0
           THEN /\ alert' = "Limit Reached"
                /\ ops' = ops
           ELSE /\ alert' = alert
                /\ ops' = ops (+) SetToBag({NewOp("library", step, remaining)})
    /\ UNCHANGED <<session, apiKey, drafts, fixed, runs>>

\* requestCameraPermissionsAsync: the permission is not granted
PermissionDenied(o) ==
    /\ o.pc = "picker"
    /\ o.kind = "camera"
    /\ alert' = "Camera Permission"
    /\ ops' = Without(ops, o)
    /\ UNCHANGED <<session, apiKey, drafts, fixed, runs>>

\* The picker yields nothing: the user cancels, or the picker throws (caught
\* and logged).
PickerNothing(o) ==
    /\ o.pc = "picker"
    /\ ops' = Without(ops, o)
    /\ UNCHANGED <<session, alert, apiKey, drafts, fixed, runs>>

\* The picker yields assets; the handler adds them.
PickerAssets(o, maxNew, maxPick, data) ==
    /\ o.pc = "picker"
    /\ \E q \in AssetQueues(Min(o.limit, maxPick), data) :
          /\ nextId - 1 + Len(q) <= maxNew
          /\ ContinueAdding(o, images, useEnhanced, q)
    /\ UNCHANGED <<result, error, streamingText, alert, apiKey, drafts, feed, openai, runs>>

\* the ways an enhance request ends without enhanced data: an error status
\* (400, 500), a transport error, a response without enhancedBase64
EnhanceFailures == {"status", "transport", "nodata"}

\* a handler that accepts a response without enhanced data in silence
AfterEnhanceNoThrow(imgs, flags, id, outcome) ==
    IF outcome = "enhanced"
    THEN [images |-> MarkEnhanced(imgs, id), useEnhanced |-> flags]
    ELSE IF outcome = "nodata"
    THEN [images |-> imgs, useEnhanced |-> flags]
    ELSE [images |-> MarkFailed(imgs, id), useEnhanced |-> SetFlag(flags, id, FALSE)]

\* the try / catch of addImageFromResult: the images and flags after the
\* enhance request of image id has ended in outcome
AfterEnhance(imgs, flags, id, outcome) ==
    IF outcome = "enhanced"
    THEN [images |-> MarkEnhanced(imgs, id), useEnhanced |-> flags]
    ELSE [images |-> MarkFailed(imgs, id), useEnhanced |-> SetFlag(flags, id, FALSE)]

\* The enhance request of the image the handler waits for completes
\* (try branch of addImageFromResult) and the handler goes on.
EnhanceSucceeded(o) ==
    /\ o.pc = "enhancing"
    /\ LET after == AfterEnhance(images, useEnhanced, o.cur, "enhanced")
       IN  ContinueAdding(o, after.images, after.useEnhanced, o.queue)
    /\ UNCHANGED <<result, error, streamingText, alert, apiKey, drafts, feed, openai, runs>>

\* The enhance request does not succeed (catch branch): the server answers
\* with an error status, the request fails in transport, or the answer
\* carries no enhancedBase64.
EnhanceFailed(o) ==
    /\ o.pc = "enhancing"
    /\ \E outcome \in EnhanceFailures :
          LET after == AfterEnhance(images, useEnhanced, o.cur, outcome)
          IN  ContinueAdding(o, after.images, after.useEnhanced, o.queue)
    /\ UNCHANGED <<result, error, streamingText, alert, apiKey, drafts, feed, openai, runs>>

\* ------------------------------------------------------ review screen
\* removeImage that leaves the selected index alone
removeImageKeepsIndex(id) ==
    /\ images' = WithoutId(images, id)
    /\ useEnhanced' = DeleteFlag(useEnhanced, id)
    /\ UNCHANGED <<step, selectedIdx, result, error, streamingText, alert, apiKey, drafts,
                   fixed, ops, runs>>

\* removeImage(id), the three state updates of the function
removeImage(id) ==
    /\ images' = WithoutId(images, id)
    /\ selectedIdx' = Max(0, selectedIdx - 1)
    /\ useEnhanced' = DeleteFlag(useEnhanced, id)
    /\ UNCHANGED <<step, result, error, streamingText, alert, apiKey, drafts, fixed,
                   ops, runs>>

\* the remove button of a thumbnail, rendered in review only
RemoveImage(id) ==
    /\ CanPress
    /\ step = "review"
    /\ \E i \in DOMAIN images : images[i].id = id
    /\ removeImage(id)

\* a thumbnail is pressed: setSelectedIdx(index)
SelectImage(index) ==
    /\ CanPress
    /\ step = "review"
    /\ index \in 0..(Len(images) - 1)
    /\ selectedIdx' = index
    /\ UNCHANGED <<step, images, useEnhanced, result, error, streamingText, alert, apiKey,
                   drafts, fixed, ops, runs>>

\* toggle buttons rendered for every selected image
ToggleEnhancedAlways(v) ==
    /\ CanPress
    /\ step = "review"
    /\ selectedIdx < Len(images)
    /\ useEnhanced' = SetFlag(useEnhanced, images[selectedIdx + 1].id, v)
    /\ UNCHANGED <<step, images, selectedIdx, result, error, streamingText, alert, apiKey,
                   drafts, fixed, ops, runs>>

\* the "Original" (FALSE) and "Enhanced" (TRUE) buttons under the preview of
\* the selected image, rendered once it is enhanced
ToggleEnhanced(v) ==
    /\ CanPress
    /\ step = "review"
    /\ selectedIdx < Len(images)
    /\ LET selected == images[selectedIdx + 1]
       IN  /\ ~selected.enhancing
           /\ selected.enhancedUri # Null
           /\ useEnhanced' = SetFlag(useEnhanced, selected.id, v)
    /\ UNCHANGED <<step, images, selectedIdx, result, error, streamingText, alert, apiKey,
                   drafts, fixed, ops, runs>>

\* a reset that leaves the streamed text on screen
ResetAllKeepsText ==
    /\ CanPress
    /\ step \in {"review", "result"}
    /\ step' = "capture"
    /\ images' = <<>>
    /\ selectedIdx' = 0
    /\ useEnhanced' = EmptyFlags
    /\ result' = NoDraft
    /\ error' = NoError
    /\ UNCHANGED <<streamingText, alert, apiKey, drafts, fixed, ops, runs>>

\* resetAll: the header button (review, result), "Start Over" (review) and
\* the result screen's button
ResetAll ==
    /\ CanPress
    /\ step \in {"review", "result"}
    /\ step' = "capture"
    /\ images' = <<>>
    /\ selectedIdx' = 0
    /\ useEnhanced' = EmptyFlags
    /\ result' = NoDraft
    /\ error' = NoError
    /\ streamingText' = <<>>
    /\ UNCHANGED <<alert, apiKey, drafts, fixed, ops, runs>>

\* the alert's button
DismissAlert ==
    /\ alert # "none"
    /\ alert' = "none"
    /\ UNCHANGED <<session, apiKey, drafts, fixed, ops, runs>>

\* ------------------------------------------------------ settings screen
\* handleSave: setApiKey(key.trim()) with a non-empty key
SaveKey ==
    /\ CanPress
    /\ apiKey = ""
    /\ apiKey' = "sk"
    /\ UNCHANGED <<session, alert, drafts, fixed, ops, runs>>

\* handleClear: setApiKey("")
ClearKey ==
    /\ CanPress
    /\ apiKey # ""
    /\ apiKey' = ""
    /\ UNCHANGED <<session, alert, drafts, fixed, ops, runs>>

\* ------------------------------------------------------------ proceedToAnalyze
\* One invocation of proceedToAnalyze: where it waits, the images and flags
\* it closed over, the request it sent, whether the model's text for it was
\* malformed, the event lines not yet read, and finalResult.
NoRequest == [images |-> <<>>, apiKey |-> ""]

NewRun(imgs, flags) ==
    [pc |-> "key", images |-> imgs, useEnhanced |-> flags,
     sent |-> NoRequest, malformed |-> FALSE, events |-> <<>>,
     hasResult |-> FALSE, finalResult |-> EmptyObj, draft |-> NoDraft,
     buffer |-> <<>>]

\* a request that takes the enhanced bytes where there are any
OriginalImagesOrEnhanced(imgs) ==
    LET withBytes == SelectSeq(imgs, LAMBDA img : img.originalBase64 # Null)
    IN  [i \in DOMAIN withBytes |->
            IF withBytes[i].enhancedBase64 # Null THEN withBytes[i].enhancedBase64
            ELSE withBytes[i].originalBase64]

\* images.map(img => img.originalBase64) without the filter
OriginalImagesUnfiltered(imgs) ==
    [i \in DOMAIN imgs |-> imgs[i].originalBase64]

\* images.map(img => img.originalBase64).filter(Boolean)
OriginalImages(imgs) ==
    LET withBytes == SelectSeq(imgs, LAMBDA img : img.originalBase64 # Null)
    IN  [i \in DOMAIN withBytes |-> withBytes[i].originalBase64]

\* proceedToAnalyze without its anyEnhancing check
ProceedToAnalyzeUnchecked(maxRuns) ==
    /\ CanPress
    /\ step = "review"
    /\ BagCardinality(runs) < maxRuns
    /\ Len(drafts) < MaxDrafts
    /\ IF Len(images) = 0
       THEN UNCHANGED <<alert, runs>>
       ELSE /\ alert' = alert
            /\ runs' = runs (+) SetToBag({NewRun(images, useEnhanced)})
    /\ UNCHANGED <<session, apiKey, drafts, fixed, ops>>

\* The press of "Generate AI Listing" (rendered in review): proceedToAnalyze
\* up to `await getApiKey()`.  The handler checks anyEnhancing itself: the
\* button's `disabled` follows images only with the next render.
ProceedToAnalyze(maxRuns) ==
    /\ CanPress
    /\ step = "review"
    /\ BagCardinality(runs) < maxRuns
    /\ Len(drafts) < MaxDrafts
    /\ IF Len(images) = 0
       THEN UNCHANGED <<alert, runs>>
       ELSE IF AnyEnhancing(images)
       THEN /\ alert' = "Still Processing"
            /\ runs' = runs
       ELSE /\ alert' = alert
            /\ runs' = runs (+) SetToBag({NewRun(images, useEnhanced)})
    /\ UNCHANGED <<session, apiKey, drafts, fixed, ops>>

\* a catch block without setStep("review")
FailAnalysisKeepsStep(r, message) ==
    /\ error' = DisplayedError(message)
    /\ step' = step
    /\ runs' = Without(runs, r)

\* the catch block: setError(...); setStep("review")
FailAnalysis(r, message) ==
    /\ error' = DisplayedError(message)
    /\ step' = "review"
    /\ runs' = Without(runs, r)

\* getApiKey() resolves: the credential check, then setStep("analyzing"),
\* the collection of the original images and the fetch
KeyResolved(r) ==
    /\ r.pc = "key"
    /\ IF apiKey = ""
       THEN /\ error' = MsgNoKey
            /\ runs' = Without(runs, r)
            /\ UNCHANGED <<step, streamingText>>
       ELSE /\ streamingText' = <<>>
            /\ IF OriginalImages(r.images) = <<>>
               THEN /\ error' = MsgNoValid
                    /\ step' = "review"
                    /\ runs' = Without(runs, r)
               ELSE /\ error' = NoError
                    /\ step' = "analyzing"
                    /\ runs' = Replace(runs, r,
                                       [r EXCEPT !.pc = "fetch",
                                                 !.sent = [images |-> OriginalImages(r.images),
                                                           apiKey |-> apiKey]])
    /\ UNCHANGED <<images, selectedIdx, useEnhanced, result, alert, apiKey, drafts, fixed, ops>>

\* fetch rejects (no connection)
FetchThrows(r) ==
    /\ r.pc = "fetch"
    /\ FailAnalysis(r, MsgNetwork)
    /\ UNCHANGED <<images, selectedIdx, useEnhanced, result, streamingText, alert, apiKey,
                   drafts, fixed, ops>>

\* the response is not OK and carries errText: the JSON body of the route's
\* catch block, a gateway's text, or nothing
FetchNotOk(r) ==
    /\ r.pc = "fetch"
    /\ \E errText \in {Body500, MsgGateway, <<>>} :
          FailAnalysis(r, IF errText = <<>> THEN MsgAnalysisFailed ELSE errText)
    /\ UNCHANGED <<images, selectedIdx, useEnhanced, result, streamingText, alert, apiKey,
                   drafts, fixed, ops>>

\* response.body has no reader
FetchNoReader(r) ==
    /\ r.pc = "fetch"
    /\ FailAnalysis(r, MsgNoStreaming)
    /\ UNCHANGED <<images, selectedIdx, useEnhanced, result, streamingText, alert, apiKey,
                   drafts, fixed, ops>>

\* what the backend may do in Spec
ChunksNike == << <<LBrace, Key("brand")>>, <<Str(<<"N", "i", "k", "e">>), RBrace>> >>
ChunksProse == << <<Word("Sorry")>> >>

Backends ==
    {Backend("none", 0, 0, <<>>, ChunksNike, 0, 0),
     Backend("none", 0, 0, <<>>, ChunksProse, 0, 0),
     Backend("create", 0, 401, <<>>, <<>>, 0, 0)}

\* a model text that names prices of its own
ChunksPriced == << <<LBrace, Key("maxProfitPrice"), Num(1), Key("suggestedPrice"), Num(2),
                    RBrace>> >>

\* the backends the endpoints are evaluated on by themselves
EndpointBackends ==
    Backends \cup {Backend("none", 0, 0, <<>>, ChunksPriced, 499, 1999),
                   Backend("none", 0, 0, <<>>, ChunksNike, 250, 1000)}

\* the route answers: not OK (its 400) or an open event stream
FetchResponds(r) ==
    /\ r.pc = "fetch"
    /\ \E b \in Backends :
          LET resp == AnalyzeStream(r.sent, b)
          IN  IF resp.status # 200
              THEN FailAnalysis(r, resp.body)
              ELSE /\ runs' = Replace(runs, r, [r EXCEPT !.pc = "stream",
                                                          !.events = resp.events,
                                                          !.malformed = resp.malformed])
                   /\ UNCHANGED <<step, error>>
    /\ UNCHANGED <<images, selectedIdx, useEnhanced, result, streamingText, alert, apiKey,
                   drafts, fixed, ops>>

\* reader.read() yields a chunk holding the next n event lines
ReadChunk(r) ==
    /\ r.pc = "stream"
    /\ \E n \in 1..Len(r.events) :
          LET acc == ProcessEvents([thrown |-> FALSE, message |-> <<>>, text |-> <<>>,
                                    hasResult |-> r.hasResult,
                                    result |-> r.finalResult],
                                   SubSeq(r.events, 1, n))
          IN  /\ streamingText' = streamingText \o acc.text
              /\ IF acc.thrown
                 THEN FailAnalysis(r, acc.message)
                 ELSE /\ runs' = Replace(runs, r,
                                         [r EXCEPT !.events = SubSeq(r.events, n + 1,
                                                                     Len(r.events)),
                                                   !.hasResult = acc.hasResult,
                                                   !.finalResult = acc.result])
                      /\ UNCHANGED <<step, error>>
    /\ UNCHANGED <<images, selectedIdx, useEnhanced, result, alert, apiKey, drafts, fixed, ops>>

\* ---- the stream as the transport delivers it: pieces of text
\* res.write(`data: ${JSON.stringify(ev)}\n\n`): the prefix, the JSON text of
\* the event in two pieces, and two newlines
EventLine(ev) ==
    << <<"data: ">>, <<"json", ev, 1>>, <<"json", ev, 2>>, <<"nl">>, <<"nl">> >>

RECURSIVE Wire(_)
Wire(events) ==
    IF events = <<>> THEN <<>> ELSE EventLine(Head(events)) \o Wire(Tail(events))

\* text.split("\n")
RECURSIVE SplitLines(_)
SplitLines(text) ==
    IF \A i \in DOMAIN text : text[i] # <<"nl">> THEN <<text>>
    ELSE LET i == CHOOSE k \in DOMAIN text :
                      text[k] = <<"nl">> /\ \A j \in 1..(k - 1) : text[j] # <<"nl">>
         IN  <<SubSeq(text, 1, i - 1)>> \o SplitLines(SubSeq(text, i + 1, Len(text)))

\* JSON.parse(line.slice(6)) of a line that starts with "data: ": the event
\* when the rest is the whole JSON text of one, a SyntaxError otherwise
ParseLine(line) ==
    LET json == Tail(line)
    IN  IF /\ Len(json) = 2
           /\ json[1][1] = "json" /\ json[2][1] = "json"
           /\ json[1][3] = 1 /\ json[2][3] = 2
           /\ json[1][2] = json[2][2]
        THEN json[1][2]
        ELSE [DeltaEvent(<<>>) EXCEPT !.garbled = TRUE]

\* the events of the lines that start with "data: ", in order
LineEvents(lines) ==
    LET dataLines == SelectSeq(lines, LAMBDA l : l # <<>> /\ l[1] = <<"data: ">>)
    IN  [i \in DOMAIN dataLines |-> ParseLine(dataLines[i])]

\* one pass of the read loop over text: what it does to acc and what it
\* leaves in buffer (lines.pop())
ReadText(acc, text) ==
    LET lines == SplitLines(text)
    IN  [acc |-> ProcessEvents(acc, LineEvents(SubSeq(lines, 1, Len(lines) - 1))),
         buffer |-> lines[Len(lines)]]

\* finalResult and the deltas of this pass, as the run r holds them
AccOf(r) ==
    [thrown |-> FALSE, message |-> <<>>, text |-> <<>>,
     hasResult |-> r.hasResult, result |-> r.finalResult]

\* a read loop that forgets the unfinished line of the previous chunk
ReadBytesForgetsBuffer(r) ==
    /\ r.pc = "stream"
    /\ \E n \in 1..Len(r.events) :
          LET read == ReadText(AccOf(r), SubSeq(r.events, 1, n))
          IN  /\ streamingText' = streamingText \o read.acc.text
              /\ IF read.acc.thrown
                 THEN FailAnalysis(r, read.acc.message)
                 ELSE /\ runs' = Replace(runs, r,
                                         [r EXCEPT !.events = SubSeq(r.events, n + 1,
                                                                     Len(r.events)),
                                                   !.buffer = read.buffer,
                                                   !.hasResult = read.acc.hasResult,
                                                   !.finalResult = read.acc.result])
                      /\ UNCHANGED <<step, error>>
    /\ UNCHANGED <<images, selectedIdx, useEnhanced, result, alert, apiKey, drafts, fixed, ops>>

\* reader.read() yields a chunk holding the next n pieces of the text:
\* buffer += chunk; lines = buffer.split("\n"); buffer = lines.pop()
ReadBytes(r) ==
    /\ r.pc = "stream"
    /\ \E n \in 1..Len(r.events) :
          LET read == ReadText(AccOf(r), r.buffer \o SubSeq(r.events, 1, n))
          IN  /\ streamingText' = streamingText \o read.acc.text
              /\ IF read.acc.thrown
                 THEN FailAnalysis(r, read.acc.message)
                 ELSE /\ runs' = Replace(runs, r,
                                         [r EXCEPT !.events = SubSeq(r.events, n + 1,
                                                                     Len(r.events)),
                                                   !.buffer = read.buffer,
                                                   !.hasResult = read.acc.hasResult,
                                                   !.finalResult = read.acc.result])
                      /\ UNCHANGED <<step, error>>
    /\ UNCHANGED <<images, selectedIdx, useEnhanced, result, alert, apiKey, drafts, fixed, ops>>

\* reader.read() rejects: the connection is lost
StreamBreaks(r) ==
    /\ r.pc = "stream"
    /\ FailAnalysis(r, MsgNetwork)
    /\ UNCHANGED <<images, selectedIdx, useEnhanced, result, streamingText, alert, apiKey,
                   drafts, fixed, ops>>

\* a draft saved although saveDraft rejects
SaveDraftThrowsAfterWrite(r) ==
    /\ r.pc = "save"
    /\ drafts' = Append(drafts, r.draft)
    /\ FailAnalysis(r, MsgStore)
    /\ UNCHANGED <<images, selectedIdx, useEnhanced, result, streamingText, alert, apiKey,
                   fixed, ops>>

\* Crypto.randomUUID() for a draft: a number no draft written or being
\* saved bears
FreshDraftId ==
    LET used == {drafts[i].id[2] : i \in DOMAIN drafts}
                \cup {r.draft.id[2] : r \in {x \in BagToSet(runs) : x.pc = "save"}}
    IN  <<"draft", CHOOSE n \in 1..(Cardinality(used) + 1) :
                      n \notin used /\ \A k \in 1..(n - 1) : k \in used>>

\* reader.read() reports done: `if (!finalResult) throw`, else the draft is
\* built from the images and flags the handler closed over, and saveDraft is called
StreamEnds(r) ==
    /\ r.pc = "stream"
    /\ r.events = <<>>
    /\ IF ~r.hasResult
       THEN FailAnalysis(r, MsgNoResult)
       ELSE /\ runs' = Replace(runs, r,
                               [r EXCEPT !.pc = "save",
                                         !.draft = BuildDraft(FreshDraftId,
                                                              r.finalResult, r.images,
                                                              r.useEnhanced)])
            /\ UNCHANGED <<step, error>>
    /\ UNCHANGED <<images, selectedIdx, useEnhanced, result, streamingText, alert, apiKey,
                   drafts, fixed, ops>>

\* the result shown without waiting for the store
SaveDraftDoneBeforeWrite(r) ==
    /\ r.pc = "save"
    /\ result' = r.draft
    /\ step' = "result"
    /\ runs' = Without(runs, r)
    /\ UNCHANGED <<images, selectedIdx, useEnhanced, error, streamingText, alert, apiKey,
                   drafts, fixed, ops>>

\* saveDraft(draft) resolves: setResult(draft); setStep("result")
SaveDraftDone(r) ==
    /\ r.pc = "save"
    /\ drafts' = Append(drafts, r.draft)
    /\ result' = r.draft
    /\ step' = "result"
    /\ runs' = Without(runs, r)
    /\ UNCHANGED <<images, selectedIdx, useEnhanced, error, streamingText, alert, apiKey,
                   fixed, ops>>

\* saveDraft(draft) rejects
SaveDraftThrows(r) ==
    /\ r.pc = "save"
    /\ FailAnalysis(r, MsgStore)
    /\ UNCHANGED <<images, selectedIdx, useEnhanced, result, streamingText, alert, apiKey,
                   drafts, fixed, ops>>

\* ------------------------------------------------------------ specification
Init ==
    /\ step = "capture"
    /\ images = <<>>
    /\ selectedIdx = 0
    /\ useEnhanced = EmptyFlags
    /\ result = NoDraft
    /\ error = NoError
    /\ streamingText = <<>>
    /\ alert = "none"
    /\ apiKey = ""
    /\ drafts = <<>>
    /\ nextId = 1
    /\ feed = <<>>
    /\ openai = NoBackend
    /\ ops = EmptyBag
    /\ runs = EmptyBag

OpStep(o, maxNew, maxPick) ==
    \/ PermissionDenied(o)
    \/ PickerNothing(o)
    \/ PickerAssets(o, maxNew, maxPick, BOOLEAN)
    \/ EnhanceSucceeded(o)
    \/ EnhanceFailed(o)

RunStep(r) ==
    \/ KeyResolved(r)
    \/ FetchThrows(r)
    \/ FetchNotOk(r)
    \/ FetchNoReader(r)
    \/ FetchResponds(r)
    \/ ReadChunk(r)
    \/ StreamBreaks(r)
    \/ StreamEnds(r)
    \/ SaveDraftDone(r)
    \/ SaveDraftThrows(r)

\* every handler of the screen, with at most maxOps picks and maxRuns
\* analyses in flight, maxNew images created and maxPick assets per pick
NextOf(maxOps, maxRuns, maxNew, maxPick) ==
    \/ CapturePhoto(maxOps, maxNew)
    \/ PickFromGallery(maxOps, maxNew)
    \/ \E o \in BagToSet(ops) : OpStep(o, maxNew, maxPick)
    \/ \E id \in 1..maxNew : RemoveImage(id)
    \/ \E index \in 0..(maxNew - 1) : SelectImage(index)
    \/ \E v \in BOOLEAN : ToggleEnhanced(v)
    \/ ResetAll
    \/ DismissAlert
    \/ SaveKey
    \/ ClearKey
    \/ ProceedToAnalyze(maxRuns)
    \/ \E r \in BagToSet(runs) : RunStep(r)

Next == NextOf(MaxOps, MaxRuns, MaxNew, MaxPick)

Spec == Init /\ [][Next]_vars

\* The requests of an analysis in flight finish or fail: getApiKey, fetch,
\* reader.read and saveDraft each settle.
Progress == \E r \in BagToSet(runs) : RunStep(r)

SpecLive == Spec /\ WF_vars(Progress)

\* two presses of the analyze button on one image
NextRace ==
    \/ CapturePhoto(RaceOps, RaceNew)
    \/ PickFromGallery(RaceOps, RaceNew)
    \/ \E o \in BagToSet(ops) : OpStep(o, RaceNew, RaceNew)
    \/ \E id \in 1..RaceNew : RemoveImage(id)
    \/ ResetAll
    \/ DismissAlert
    \/ SaveKey
    \/ ClearKey
    \/ ProceedToAnalyze(RaceRuns)
    \/ \E r \in BagToSet(runs) : RunStep(r)

SpecRace == Init /\ [][NextRace]_vars

\* captures and gallery picks only, of assets that carry base64 data and
\* whose enhancement succeeds
NextCap ==
    \/ CapturePhoto(CapOps, CapNew)
    \/ PickFromGallery(CapOps, CapNew)
    \/ \E o \in BagToSet(ops) : PermissionDenied(o)
    \/ \E o \in BagToSet(ops) : PickerNothing(o)
    \/ \E o \in BagToSet(ops) : PickerAssets(o, CapNew, CapPick, {TRUE})
    \/ \E o \in BagToSet(ops) : EnhanceSucceeded(o)
    \/ DismissAlert

SpecCap == Init /\ [][NextCap]_vars

\* The draft store by itself (lib/storage), with the delete handlers of the
\* dashboard and of the draft's detail screen.
\* deleteDraft(id): the store without the draft of that id
deleteDraft(store, id) == SelectSeq(store, LAMBDA d : d.id # id)

\* getDrafts(): every stored draft
getDrafts(store) == [i \in DOMAIN store |-> store[i]]

\* getDraft(id): the stored draft of that id, or null
getDraft(store, id) ==
    IF \E i \in DOMAIN store : store[i].id = id
    THEN store[CHOOSE i \in DOMAIN store : store[i].id = id]
    ELSE NoDraft

\* a delete handler that removes the oldest draft, whatever the id
HandleDeleteOldest(id) ==
    /\ drafts' = IF drafts = <<>> THEN drafts ELSE Tail(drafts)
    /\ UNCHANGED <<session, alert, apiKey, fixed, ops, runs>>

\* handleDelete of the dashboard and doDelete of the detail screen:
\* await deleteDraft(id), then the list is loaded again or the screen left
HandleDelete(id) ==
    /\ drafts' = deleteDraft(drafts, id)
    /\ UNCHANGED <<session, alert, apiKey, fixed, ops, runs>>

\* the orders in which MaxStored drafts may have been written
StoredIds == {ids \in [1..MaxStored -> 1..MaxStored] :
                 \A i \in DOMAIN ids : \A j \in DOMAIN ids : i # j => ids[i] # ids[j]}

InitDrafts ==
    /\ step = "capture"
    /\ images = <<>>
    /\ selectedIdx = 0
    /\ useEnhanced = EmptyFlags
    /\ result = NoDraft
    /\ error = NoError
    /\ streamingText = <<>>
    /\ alert = "none"
    /\ apiKey = ""
    /\ \E ids \in StoredIds :
          /\ drafts = [i \in DOMAIN ids |->
                         BuildDraft(<<"draft", ids[i]>>, EmptyObj,
                                    MarkEnhanced(<<NewItem(1, TRUE)>>, 1),
                                    SetFlag(EmptyFlags, 1, TRUE))]
    /\ nextId = 1
    /\ feed = <<>>
    /\ openai = NoBackend
    /\ ops = EmptyBag
    /\ runs = EmptyBag

NextDrafts == \E id \in 1..MaxStored : HandleDelete(<<"draft", id>>)

SpecDrafts == InitDrafts /\ [][NextDrafts]_vars

\* a request with one image and a key
NikeRequest == [images |-> << <<"conv", 1>> >>, apiKey |-> "sk"]

\* The streaming route by itself, serving NikeRequest: the backend's
\* behaviour is drawn, and the route writes its event lines one at a time.
PricingBrands ==
    {<<"N", "i", "k", "e">>, <<"G", "u", "c", "c", "i">>,
     <<"p", "r", "i", "m", "a", "r", "k">>, <<"X">>,
     <<"a", "d", "i", "d", "a", "s">>,
     <<"G", "a", "p", " ", "x", " ", "N", "i", "k", "e">>}

PricingConditions ==
    {<<"N", "e", "w", " ", "w", "i", "t", "h", " ", "t", "a", "g", "s">>,
     <<"S", "a", "t", "i", "s", "f", "a", "c", "t", "o", "r", "y">>,
     <<"G", "o", "o", "d">>, <<"?">>,
     <<"V", "e", "r", "y", " ", "g", "o", "o", "d">>}

\* values of Math.random() * 5 and Math.random() * 20, in hundredths
Jitter5 == {0, 50, 499}
Jitter20 == {0, 1999}

\* model texts: brand and condition in two chunks with an empty chunk
\* between, a fenced object, and the literal null
ChunksListing(brand, condition) ==
    << <<LBrace, Key("brand"), Str(brand)>>, <<>>,
       <<Key("condition"), Str(condition), RBrace>> >>

ChunksFenced ==
    << <<FenceJson, Newline, LBrace>>,
       <<Key("brand"), Str(<<"N", "i", "k", "e">>), RBrace, Newline>>,
       <<Fence>> >>

ChunksNull == << <<LitNull>> >>

\* a model text that names a brand and all four pricing fields
ChunksAllPriced ==
    << <<LBrace, Key("brand"), Str(<<"N", "i", "k", "e">>), Key("quickSellPrice"), Num(900)>>,
       <<Key("maxProfitPrice"), Num(999), Key("sellProbability"), Num(100),
         Key("suggestedPrice"), Num(1), RBrace>> >>

ServedBackends ==
    EndpointBackends
    \cup {Backend("none", 0, 0, <<>>, ChunksListing(brand, condition), rnd5, rnd20) :
             brand \in PricingBrands, condition \in PricingConditions,
             rnd5 \in Jitter5, rnd20 \in Jitter20}
    \cup {Backend("none", 0, 0, <<>>, chunks, 0, 0) :
             chunks \in {ChunksFenced, ChunksNull, ChunksAllPriced}}
    \cup {Backend("stream", after, status, <<>>, ChunksNike, 0, 0) :
             after \in 0..Len(ChunksNike), status \in {0, 429}}

InitEndpoint ==
    /\ step = "capture"
    /\ images = <<>>
    /\ selectedIdx = 0
    /\ useEnhanced = EmptyFlags
    /\ result = NoDraft
    /\ error = NoError
    /\ streamingText = <<>>
    /\ alert = "none"
    /\ apiKey = ""
    /\ drafts = <<>>
    /\ nextId = 1
    /\ feed = <<>>
    /\ openai \in ServedBackends
    /\ ops = EmptyBag
    /\ runs = EmptyBag

\* what the route writes in all
Served == AnalyzeStream(NikeRequest, openai).events

\* res.write of the next event line
ResWrite ==
    /\ Len(feed) < Len(Served)
    /\ feed' = Append(feed, Served[Len(feed) + 1])
    /\ UNCHANGED <<session, alert, apiKey, drafts, nextId, openai, ops, runs>>

SpecEndpoint == InitEndpoint /\ [][ResWrite]_vars

\* removeImage by itself, called with any id on a review screen that holds
\* enhanced images
ReviewSessions ==
    UNION {[1..n -> 1..MaxRemoveId] : n \in 0..MaxRemoveId}

InitRemove ==
    /\ step = "review"
    /\ \E ids \in ReviewSessions :
          /\ \A i \in DOMAIN ids : \A j \in DOMAIN ids : i < j => ids[i] < ids[j]
          /\ images = [i \in DOMAIN ids |-> MarkEnhanced(<<NewItem(ids[i], TRUE)>>, ids[i])[1]]
          /\ useEnhanced \in [{ids[i] : i \in DOMAIN ids} -> BOOLEAN]
          /\ selectedIdx \in 0..Max(0, Len(ids) - 1)
    /\ result = NoDraft
    /\ error = NoError
    /\ streamingText = <<>>
    /\ alert = "none"
    /\ apiKey = ""
    /\ drafts = <<>>
    /\ nextId = MaxRemoveId + 1
    /\ feed = <<>>
    /\ openai = NoBackend
    /\ ops = EmptyBag
    /\ runs = EmptyBag

NextRemove == \E id \in 1..MaxRemoveId : removeImage(id)

SpecRemove == InitRemove /\ [][NextRemove]_vars

\* The reading of one event stream.  The endpoint's address is configuration
\* (getApiUrl()), so the lines are whatever the server there sends: deltas,
\* a terminal line with or without a result, an error line.
BareDone == Event(<<>>, FALSE, EmptyObj, <<>>, TRUE)

NikeResult ==
    LET events == AnalyzeStream(NikeRequest, Backend("none", 0, 0, <<>>, ChunksNike, 0, 0)).events
    IN  events[Len(events)].result

\* a result that leaves out or blanks every field but a suggestedPrice
SparseResult == [suggestedPrice |-> Num(7), brand |-> Str(<<>>), maxProfitPrice |-> Num(0)]

StreamEvents ==
    {DeltaEvent(ChunksNike[1]), DeltaEvent(ChunksNike[2]), BareDone,
     ResultEvent(NikeResult), ResultEvent(SparseResult),
     ErrorEvent(MsgParse), ErrorEvent(MsgBadPayload),
     Event(<<>>, FALSE, EmptyObj, MsgInvalidKey, FALSE)}

Feeds == UNION {[1..n -> StreamEvents] : n \in 0..MaxEvents}

ChunkEvents ==
    {DeltaEvent(ChunksNike[1]), DeltaEvent(ChunksNike[2]), BareDone,
     ResultEvent(NikeResult), ErrorEvent(MsgParse), ErrorEvent(MsgBadPayload)}

ChunkFeeds == [1..MaxChunkEvents -> ChunkEvents]

\* one enhanced image, a saved key, and an analysis whose response has just
\* been opened
InitStream ==
    /\ step = "analyzing"
    /\ images = MarkEnhanced(<<NewItem(1, TRUE)>>, 1)
    /\ selectedIdx = 0
    /\ useEnhanced = SetFlag(EmptyFlags, 1, TRUE)
    /\ result = NoDraft
    /\ error = NoError
    /\ streamingText = <<>>
    /\ alert = "none"
    /\ apiKey = "sk"
    /\ drafts = <<>>
    /\ nextId = 2
    /\ feed \in Feeds
    /\ openai = NoBackend
    /\ ops = EmptyBag
    /\ runs = SetToBag({[NewRun(images, useEnhanced) EXCEPT
                             !.pc = "stream",
                             !.sent = [images |-> OriginalImages(images), apiKey |-> apiKey],
                             !.events = feed]})

NextStream ==
    \/ \E r \in BagToSet(runs) : ReadChunk(r)
    \/ \E r \in BagToSet(runs) : StreamEnds(r)
    \/ \E r \in BagToSet(runs) : SaveDraftDone(r)

SpecStream == InitStream /\ [][NextStream]_vars

\* The same reading with the transport's chunks: the text of the event lines
\* of feed, cut short anywhere (a server that dies in the middle of a line),
\* arrives in chunks of any size.
InitChunks ==
    /\ step = "analyzing"
    /\ images = MarkEnhanced(<<NewItem(1, TRUE)>>, 1)
    /\ selectedIdx = 0
    /\ useEnhanced = SetFlag(EmptyFlags, 1, TRUE)
    /\ result = NoDraft
    /\ error = NoError
    /\ streamingText = <<>>
    /\ alert = "none"
    /\ apiKey = "sk"
    /\ drafts = <<>>
    /\ nextId = 2
    /\ feed \in {SubSeq(Wire(events), 1, n) :
                    events \in ChunkFeeds, n \in {5 * MaxChunkEvents - 2, 5 * MaxChunkEvents}}
    /\ openai = NoBackend
    /\ ops = EmptyBag
    /\ runs = SetToBag({[NewRun(images, useEnhanced) EXCEPT
                             !.pc = "stream",
                             !.sent = [images |-> OriginalImages(images), apiKey |-> apiKey],
                             !.events = feed]})

NextChunks ==
    \/ \E r \in BagToSet(runs) : ReadBytes(r)
    \/ \E r \in BagToSet(runs) : StreamEnds(r)
    \/ \E r \in BagToSet(runs) : SaveDraftDone(r)

SpecChunks == InitChunks /\ [][NextChunks]_vars

\* ------------------------------------------------------------ claims
\* the analyses whose request has been sent and whose outcome is not yet in
Sent == {"fetch", "stream", "save"}

\* C1: whenever the stage is analyzing, no image of the session is still
\* being enhanced.
C1_NoPendingWhileAnalyzing ==
    step = "analyzing" => ~AnyEnhancing(images)

\* C2: at most one analysis has its inference request in flight at any time.
C2_OneRequestInFlight ==
    LET inFlight == {r \in BagToSet(runs) : r.pc \in Sent}
    IN  /\ Cardinality(inFlight) <= 1
        /\ \A r \in inFlight : CopiesIn(r, runs) = 1

\* C3: a step that takes the stage out of analyzing is the failure or the
\* completion of an analysis in flight, and leads to review or result.
C3_OnlyOutcomeLeavesAnalyzing ==
    [][(step = "analyzing" /\ step' # "analyzing") =>
          /\ step' \in {"review", "result"}
          /\ \E r \in BagToSet(runs) : r.pc \in Sent /\ runs' = Without(runs, r)]_vars

C5_AtMostMaxImages ==
    Len(images) <= MAX_IMAGES

\* C6: a call of proceedToAnalyze on a session with images is turned away with
\* the "Still Processing" alert exactly when some image is being enhanced at
\* the call, and a call turned away starts nothing and changes nothing else.
C6_PendingIffTurnedAway ==
    [][LET turnedAway == alert = "none" /\ alert' = "Still Processing"
           started == BagCardinality(runs') > BagCardinality(runs)
       IN  (turnedAway \/ started) =>
              /\ turnedAway <=> AnyEnhancing(images)
              /\ started <=> ~AnyEnhancing(images)
              /\ Len(images) > 0
              /\ turnedAway => UNCHANGED <<session, drafts, runs>>]_vars

C6_Witness ==
    /\ alert = "Still Processing"
    /\ AnyEnhancing(images)
    /\ runs = EmptyBag

\* C7: a request is in flight only for an analysis that was called with no
\* image being enhanced, and it carries at least one image's bytes, nothing
\* but bytes, and a non-empty key; the stage is analyzing only while such a
\* request is in flight; and the route calls the backend for no request that
\* has no image or no key.
C7_RequestNeedsImagesAndKey ==
    /\ \A r \in BagToSet(runs) :
          r.pc \in Sent =>
             /\ Len(r.sent.images) >= 1
             /\ \A i \in DOMAIN r.sent.images : r.sent.images[i] # Null
             /\ r.sent.apiKey # ""
             /\ ~AnyEnhancing(r.images)
    /\ step = "analyzing" => \E r \in BagToSet(runs) : r.pc \in Sent
    /\ \A b \in Backends :
       \A req \in {NoRequest, [NikeRequest EXCEPT !.apiKey = ""],
                   [NikeRequest EXCEPT !.images = <<>>], NikeRequest} :
          LET resp == AnalyzeStream(req, b)
          IN  resp.contacted <=> (Len(req.images) > 0 /\ req.apiKey # "")

C7_Witness ==
    /\ error = MsgNoKey
    /\ step = "review"
    /\ Len(images) > 0
    /\ runs = EmptyBag

C9_MalformedFails ==
    [][/\ \A r \in BagToSet(runs) :
             r.malformed =>
                /\ r.pc = "stream" /\ ~r.hasResult
                /\ runs' = Without(runs, r) =>
                      /\ step' = "review"
                      /\ error' \notin {NoError, <<>>}
                      /\ UNCHANGED <<drafts, result, images, selectedIdx, useEnhanced>>
       /\ runs' # runs => UNCHANGED <<images, selectedIdx, useEnhanced>>]_vars

C9_Witness ==
    /\ step = "review"
    /\ error = MsgParse
    /\ runs = EmptyBag
    /\ drafts = <<>>
    /\ Len(images) > 0

\* C10: the step that ends an analysis in failure sets the stage to review and
\* the error to a non-empty message.
C10_FailureLeavesMessage ==
    [][\A r \in BagToSet(runs) :
          (r.pc \in Sent /\ runs' = Without(runs, r) /\ drafts' = drafts)
          => /\ step' = "review"
             /\ error' \notin {NoError, <<>>}]_vars

\* C11: whenever the stage is not analyzing, the accumulated stream text is
\* empty.
C11_BufferEmptyOutsideAnalyzing ==
    step # "analyzing" => streamingText = <<>>

\* C12: a stream that carries an event with an error ends in review with no
\* draft written, whatever the event's done flag and text and whatever
\* follows it.
C12_ErrorEventIsFatal ==
    (/\ runs = EmptyBag
     /\ \E i \in DOMAIN feed : feed[i].error # <<>>)
    => /\ step = "review"
       /\ drafts = <<>>
       /\ result = NoDraft

\* C13 (as claimed): the images of a request are the bytes as captured of
\* the images the analysis was called with, in their order.
C13_SubmitsCapturedBytes ==
    \A r \in BagToSet(runs) :
       r.pc \in Sent =>
          LET withBytes == SelectSeq(r.images, LAMBDA img : img.originalBase64 # Null)
          IN  r.sent.images = [i \in DOMAIN withBytes |-> <<"raw", withBytes[i].id>>]

\* C13 (as the code has it): the images of a request are, in the order of
\* the images the analysis was called with and leaving out those without
\* bytes, the bytes as captured of an image whose enhancement did not succeed
\* and the unenhanced JPEG conversion the enhance endpoint returned for one
\* whose enhancement succeeded; never enhanced bytes, whatever the flags.
C13_SubmitsUnenhancedBytes ==
    \A r \in BagToSet(runs) :
       r.pc \in Sent =>
          LET withBytes == SelectSeq(r.images, LAMBDA img : img.originalBase64 # Null)
          IN  /\ r.sent.images =
                    [i \in DOMAIN withBytes |->
                        IF withBytes[i].enhancedBase64 # Null
                        THEN <<"conv", withBytes[i].id>>
                        ELSE <<"raw", withBytes[i].id>>]
              /\ \A i \in DOMAIN r.sent.images : \A j \in DOMAIN r.images :
                    r.sent.images[i] # r.images[j].enhancedBase64

C13_Witness ==
    \E r \in BagToSet(runs) :
       /\ r.pc \in Sent
       /\ r.sent.images = << <<"conv", 1>>, <<"raw", 2>> >>
       /\ r.useEnhanced[1]

\* C14: the draft an analysis writes has one reference per image the
\* analysis was called with, in their order: the enhanced reference exactly
\* when the image's flag (as the analysis was called) is true and its
\* enhancement succeeded, the original reference otherwise; the primary
\* reference is the first of them.
C14_DraftReferences ==
    [][drafts' # drafts =>
          \E r \in BagToSet(runs) :
             /\ r.pc = "save"
             /\ runs' = Without(runs, r)
             /\ LET d == drafts'[Len(drafts')]
                    flag(img) == img.id \in DOMAIN r.useEnhanced /\ r.useEnhanced[img.id]
                    succeeded(img) ==
                        img.originalBase64 # Null /\ ~img.enhancing /\ ~img.enhanceFailed
                IN  /\ DOMAIN d.imageUris = DOMAIN r.images
                    /\ \A i \in DOMAIN r.images :
                          d.imageUris[i] = IF flag(r.images[i]) /\ succeeded(r.images[i])
                                           THEN <<"enh", r.images[i].id>>
                                           ELSE <<"orig", r.images[i].id>>
                    /\ d.imageUri = d.imageUris[1]]_vars

C14_Witness ==
    /\ step = "result"
    /\ result # NoDraft
    /\ result.imageUris = << <<"enh", 1>>, <<"enh", 2>> >>
    /\ result.imageUri = <<"enh", 1>>

\* C15: every result either endpoint sends, and the result and every draft
\* of the client, has suggestedPrice equal to maxProfitPrice, also where the
\* result received names no prices or prices of its own.
C15_SuggestedIsMaxProfit ==
    /\ \A i \in DOMAIN drafts : drafts[i].suggestedPrice = drafts[i].maxProfitPrice
    /\ result # NoDraft => result.suggestedPrice = result.maxProfitPrice
    /\ \A r \in BagToSet(runs) :
          r.pc = "save" => r.draft.suggestedPrice = r.draft.maxProfitPrice
    /\ \A b \in EndpointBackends :
          LET events == AnalyzeStream(NikeRequest, b).events
              answer == Analyze(NikeRequest, b)
          IN  /\ \A i \in DOMAIN events :
                    events[i].hasResult =>
                       events[i].result.suggestedPrice = events[i].result.maxProfitPrice
              /\ answer.hasResult =>
                    answer.result.suggestedPrice = answer.result.maxProfitPrice

C15_Witness ==
    /\ step = "result"
    /\ feed = <<ResultEvent(SparseResult)>>
    /\ Len(drafts) = 1
    /\ drafts[1].maxProfitPrice = Num(10)
    /\ Analyze(NikeRequest, Backend("none", 0, 0, <<>>, ChunksPriced, 499, 1999)).hasResult

C17_DraftWrittenOncePerSuccess ==
    [][/\ drafts' # drafts =>
             \E r \in BagToSet(runs) :
                /\ r.pc = "save" /\ r.hasResult /\ r.events = <<>>
                /\ runs' = Without(runs, r)
                /\ drafts' = Append(drafts, r.draft)
                /\ \A i \in DOMAIN drafts : drafts[i].id # r.draft.id
                /\ step' = "result"
                /\ result' = r.draft
       /\ (result' # result /\ result' # NoDraft) => drafts' = Append(drafts, result')
       /\ (BagCardinality(runs') < BagCardinality(runs) /\ step' # "result")
             => drafts' = drafts]_vars

C17_Witness ==
    /\ Len(drafts) = 1
    /\ result = drafts[1]
    /\ error = NoError
    /\ runs = EmptyBag

\* C18: the stage becomes result only by the step that writes the draft to
\* the store, and whenever the stage is result the result is a draft, not
\* null, that the store holds; the step that enters the stage makes the
\* result the draft it has just written.
C18_ResultedOnlyAfterWrite ==
    [][/\ (step # "result" /\ step' = "result") =>
             /\ Len(drafts') = Len(drafts) + 1
             /\ drafts' = Append(drafts, result')
       /\ step' = "result" =>
             /\ result' # NoDraft
             /\ \E i \in DOMAIN drafts' : drafts'[i] = result']_vars

C18_Witness ==
    /\ step = "result"
    /\ result # NoDraft
    /\ \E i \in DOMAIN drafts : drafts[i] = result /\ result.imageUris # <<>>

\* C19: when the enhance request of an image that is no longer in the
\* session completes, in success or in failure, and the handler that awaited
\* it has nothing left to do (no further asset to add, and it was not
\* started on the capture screen), the session is unchanged: images, the
\* selection-flag map and every other session field.
C19_CompletionForRemovedIsNoOp ==
    [][\A o \in BagToSet(ops) :
          (/\ o.pc = "enhancing"
           /\ o.queue = <<>>
           /\ o.step # "capture"
           /\ \A i \in DOMAIN images : images[i].id # o.cur
           /\ ops' = Without(ops, o))
          => UNCHANGED session]_vars

\* C20: an image whose enhancement has failed, an image added without bytes
\* included, has its selection flag false.
C20_FailedImageNotSelected ==
    \A i \in DOMAIN images :
       images[i].enhanceFailed =>
          /\ images[i].id \in DOMAIN useEnhanced
          /\ ~useEnhanced[images[i].id]

\* C21: the enhance requests of the assets of one pick are outstanding
\* together: no handler waits for the enhance request of one asset while a
\* later asset of the same pick has yet to be appended and requested.
C21_RequestsDoNotWait ==
    \A o \in BagToSet(ops) : o.pc = "enhancing" => o.queue = <<>>

\* C22: the step in which the enhance request of image X completes changes
\* only X's own item and, on failure, X's selection flag: the number and
\* order of the images, every other image, every other image's flag, the
\* stage, the error and the result are unchanged.
C22_CompletionChangesOnlyItsItem ==
    [][\A o \in BagToSet(ops) :
          (o.pc = "enhancing" /\ CopiesIn(o, ops') < CopiesIn(o, ops)) =>
             /\ Len(images') = Len(images)
             /\ \A i \in DOMAIN images :
                   images[i].id # o.cur => images'[i] = images[i]
             /\ DOMAIN useEnhanced' \subseteq (DOMAIN useEnhanced) \cup {o.cur}
             /\ \A id \in (DOMAIN useEnhanced) \ {o.cur} :
                   id \in DOMAIN useEnhanced' /\ useEnhanced'[id] = useEnhanced[id]
             /\ step' = step
             /\ error' = error
             /\ result' = result]_vars

\* C23: a press of the user (a step in which no handler in flight moves on)
\* changes the selection flag of an image only if that image's enhancement
\* has succeeded, and gives the selection map no new entry; on a pending or
\* failed image the map is left as it is.
C23_ToggleOnlyWhenSucceeded ==
    [][ops' = ops =>
          /\ DOMAIN useEnhanced' \subseteq DOMAIN useEnhanced
          /\ \A id \in DOMAIN useEnhanced' :
                useEnhanced'[id] # useEnhanced[id] =>
                   \E i \in DOMAIN images :
                      /\ images[i].id = id
                      /\ ~images[i].enhancing
                      /\ ~images[i].enhanceFailed
                      /\ images[i].enhancedUri # Null]_vars

\* an enhanced image switched to its original, and a failed image selected
\* on the review screen
C23_Witness ==
    /\ step = "review"
    /\ Len(images) = 2
    /\ images[1].enhancedUri # Null
    /\ ~useEnhanced[images[1].id]
    /\ images[2].enhanceFailed
    /\ selectedIdx = 1

\* C24: a step that takes an image out of the session without resetting it
\* happens on the review screen only, drops exactly one item, keeps the other
\* items in their order, deletes the dropped id's selection flag and no
\* other, and leaves selectedIdx an index of images whenever images is not
\* empty.
C24_RemoveDropsOneItem ==
    [][(Len(images') < Len(images) /\ step' # "capture") =>
          /\ step = "review"
          /\ step' = "review"
          /\ \E i \in DOMAIN images :
                /\ images' = SubSeq(images, 1, i - 1) \o SubSeq(images, i + 1, Len(images))
                /\ \A j \in DOMAIN images : j # i => images[j].id # images[i].id
                /\ DOMAIN useEnhanced' = (DOMAIN useEnhanced) \ {images[i].id}
                /\ \A id \in DOMAIN useEnhanced' : useEnhanced'[id] = useEnhanced[id]
          /\ images' # <<>> => selectedIdx' \in 0..(Len(images') - 1)]_vars

\* the last of two images was selected and has been removed
C24_Witness ==
    /\ step = "review"
    /\ Len(images) = 1
    /\ images[1].id = 1
    /\ nextId = 3
    /\ DOMAIN useEnhanced = {1}
    /\ selectedIdx = 0
    /\ ops = EmptyBag

C26_NoImageInCapture ==
    step = "capture" => images = <<>>

\* C27: the step that takes the stage back to capture (the reset) leaves the
\* session in its initial state: no images, selectedIdx 0, an empty
\* selection map, no result, no error and an empty stream buffer.
C27_ResetGivesInitialSession ==
    [][(step # "capture" /\ step' = "capture") =>
          /\ images' = <<>>
          /\ selectedIdx' = 0
          /\ useEnhanced' = EmptyFlags
          /\ result' = NoDraft
          /\ error' = NoError
          /\ streamingText' = <<>>]_vars

\* the session after a reset that followed a written draft
C27_Witness ==
    /\ step = "capture"
    /\ images = <<>>
    /\ useEnhanced = EmptyFlags
    /\ result = NoDraft
    /\ streamingText = <<>>
    /\ nextId > 1
    /\ drafts # <<>>

\* the bounds of a pricing
PricingInBounds(p) ==
    /\ p.maxProfitPrice[2] >= 3
    /\ p.quickSellPrice[2] >= 2
    /\ p.quickSellPrice[2] <= p.maxProfitPrice[2]
    /\ p.sellProbability[2] >= 15
    /\ p.sellProbability[2] <= 99

\* C28: the pricing a result carries, and the pricing of every brand,
\* condition and pair of jitter values, has maxProfitPrice >= 3,
\* quickSellPrice >= 2, quickSellPrice <= maxProfitPrice and
\* 15 <= sellProbability <= 99.
C28_PricingWithinBounds ==
    /\ \A i \in DOMAIN feed : feed[i].hasResult => PricingInBounds(feed[i].result)
    /\ \A brand \in PricingBrands \cup {<<>>} :
          \A condition \in PricingConditions \cup {<<>>} :
             \A rnd5 \in Jitter5 \cup {49, 250} :
                \A rnd20 \in Jitter20 \cup {50, 1000} :
                   PricingInBounds(generateUKPricing(brand, condition, rnd5, rnd20))

\* a result priced at the floors: primark, satisfactory, no jitter
C28_Witness ==
    /\ feed # <<>>
    /\ feed[Len(feed)].hasResult
    /\ feed[Len(feed)].result.maxProfitPrice = Num(3)
    /\ feed[Len(feed)].result.quickSellPrice = Num(2)
    /\ openai.rnd5 = 0

\* C29: of the event lines the streaming route has written, only the last
\* can be terminal (done), so no delta follows a terminal line and there is
\* at most one; and when the route has written all it writes, the last line
\* is terminal and carries either a result or an error, not both.
C29_OneTerminalEventLast ==
    /\ \A i \in DOMAIN feed : feed[i].done => i = Len(feed)
    /\ \A i \in DOMAIN feed : ~feed[i].done => (feed[i].delta # <<>> /\ ~feed[i].hasResult)
    /\ Len(feed) = Len(Served) =>
          /\ feed # <<>>
          /\ feed[Len(feed)].done
          /\ feed[Len(feed)].delta = <<>>
          /\ feed[Len(feed)].hasResult <=> (feed[Len(feed)].error = <<>>)

\* deltas of a text that does not parse, then the one error line
C29_Witness ==
    /\ openai.chunks = ChunksProse
    /\ feed = <<DeltaEvent(ChunksProse[1]), ErrorEvent(MsgParse)>>

\* the text the deltas written so far add up to, and the text the backend
\* has delivered to the route
DeltaText == Concat([i \in DOMAIN feed |-> feed[i].delta])

RawText ==
    Concat(IF openai.fail = "create" THEN <<>>
           ELSE IF openai.fail = "stream" THEN SubSeq(openai.chunks, 1, openai.after)
           ELSE openai.chunks)

\* the fields the route computes itself
PricingFields == {"quickSellPrice", "maxProfitPrice", "sellProbability", "suggestedPrice"}

\* C30 as stated: when the route has written all it writes, the deltas in
\* order add up to the full raw text, and a terminal result holds every
\* field of the parse of that text (fences stripped, trimmed) with the
\* parsed value.
C30_ResultIsParseOfDeltas ==
    Len(feed) = Len(Served) =>
       /\ DeltaText = RawText
       /\ feed[Len(feed)].hasResult =>
             LET parsed == JSONParse(CleanContent(DeltaText))
             IN  /\ parsed.ok
                 /\ \A k \in DOMAIN parsed.obj :
                       /\ k \in DOMAIN feed[Len(feed)].result
                       /\ feed[Len(feed)].result[k] = parsed.obj[k]

\* C30 amended: the same, for every field of the parse but the four pricing
\* fields, which the route computes itself.
C30_ResultIsParseOfDeltasButPricing ==
    Len(feed) = Len(Served) =>
       /\ DeltaText = RawText
       /\ feed[Len(feed)].hasResult =>
             LET parsed == JSONParse(CleanContent(DeltaText))
             IN  /\ parsed.ok
                 /\ \A k \in (DOMAIN parsed.obj) \ PricingFields :
                       /\ k \in DOMAIN feed[Len(feed)].result
                       /\ feed[Len(feed)].result[k] = parsed.obj[k]

\* a fenced text streamed in three deltas and its result
C30_Witness ==
    /\ openai.chunks = ChunksFenced
    /\ Len(feed) = 4
    /\ feed[4].hasResult
    /\ feed[4].result.brand = Str(<<"N", "i", "k", "e">>)

C32_PricingFromRecordedFields ==
    (Len(feed) = Len(Served) /\ feed # <<>> /\ feed[Len(feed)].hasResult) =>
       LET d == BuildDraft(<<"draft", 1>>, feed[Len(feed)].result,
                           MarkEnhanced(<<NewItem(1, TRUE)>>, 1),
                           SetFlag(EmptyFlags, 1, TRUE))
       IN  /\ \E rnd5 \in 0..499 :
                LET p == generateUKPricing(d.brand[2], d.condition[2], rnd5, 0)
                IN  /\ p.maxProfitPrice = d.maxProfitPrice
                    /\ p.quickSellPrice = d.quickSellPrice
           /\ \E rnd20 \in 0..1999 :
                generateUKPricing(d.brand[2], d.condition[2], 0, rnd20).sellProbability
                   = d.sellProbability

EnhancementState(img) ==
    IF img.enhancing THEN "pending"
    ELSE IF img.enhanceFailed THEN "failed"
    ELSE "succeeded"

\* C34: an image is never both pending and failed; it is succeeded exactly
\* when its enhanced bytes and its enhanced display reference are both
\* non-null; an image without original bytes is failed and no handler awaits
\* an enhance request for it; an image that enters the session is pending,
\* or failed for want of bytes; and the state of an image in the session
\* changes only from pending to succeeded or from pending to failed.
C34_EnhancementStateMachine ==
    [][/\ \A i \in DOMAIN images' :
             LET img == images'[i]
             IN  /\ ~(img.enhancing /\ img.enhanceFailed)
                 /\ EnhancementState(img) = "succeeded"
                       <=> (img.enhancedBase64 # Null /\ img.enhancedUri # Null)
                 /\ img.enhancedBase64 # Null <=> img.enhancedUri # Null
                 /\ img.originalBase64 = Null =>
                       /\ EnhancementState(img) = "failed"
                       /\ \A o \in BagToSet(ops') : o.cur # img.id
                 /\ (\A j \in DOMAIN images : images[j].id # img.id) =>
                       EnhancementState(img) =
                          (IF img.originalBase64 = Null THEN "failed" ELSE "pending")
       /\ \A j \in DOMAIN images : \A i \in DOMAIN images' :
             (images'[i].id = images[j].id
                /\ EnhancementState(images'[i]) # EnhancementState(images[j]))
             => /\ EnhancementState(images[j]) = "pending"
                /\ EnhancementState(images'[i]) \in {"succeeded", "failed"}]_vars

\* one image of each end state: enhanced, failed in enhancement, and added
\* without bytes
C34_Witness ==
    /\ Len(images) = 2
    /\ EnhancementState(images[1]) = "succeeded"
    /\ images[1].enhancedBase64 # Null
    /\ EnhancementState(images[2]) = "failed"
    /\ images[2].originalBase64 = Null
    /\ ops = EmptyBag

\* C35: for an image whose enhance request is awaited, each way the request
\* can end without enhanced data (error status, transport error, response
\* without enhanced data) gives the same images and flags, with that image
\* failed; and once the handler has moved on from the request, the image, if
\* still in the session, is not pending.
C35_EveryFailureMarksFailed ==
    [][\A o \in BagToSet(ops) :
          o.pc = "enhancing" =>
             /\ \A outcome \in EnhanceFailures :
                   LET after == AfterEnhance(images, useEnhanced, o.cur, outcome)
                   IN  /\ after = AfterEnhance(images, useEnhanced, o.cur, "transport")
                       /\ \A i \in DOMAIN after.images :
                             after.images[i].id = o.cur =>
                                /\ after.images[i].enhanceFailed
                                /\ ~after.images[i].enhancing
                                /\ after.images[i].enhancedUri = Null
             /\ CopiesIn(o, ops') < CopiesIn(o, ops) =>
                   \A i \in DOMAIN images' :
                      images'[i].id = o.cur => ~images'[i].enhancing]_vars

\* an image with bytes whose enhancement has failed
C35_Witness ==
    /\ Len(images) = 1
    /\ images[1].originalBase64 = <<"raw", 1>>
    /\ images[1].enhanceFailed
    /\ ~images[1].enhancing
    /\ ~useEnhanced[1]

\* the value of the first row of table, in the table's order, whose keyword
\* is a substring of the lowercased text, or default when there is none
FirstKeyword(table, text, default) ==
    LET s == ToLowerCase(text)
        hit(k) == \E i \in 0..(Len(s) - Len(table[k][1])) :
                     SubSeq(s, i + 1, i + Len(table[k][1])) = table[k][1]
    IN  IF \E k \in DOMAIN table : hit(k)
        THEN table[CHOOSE k \in DOMAIN table :
                      hit(k) /\ \A j \in 1..(k - 1) : ~hit(j)][2]
        ELSE default

\* C36: the prices and the sell probability of a result the route has
\* written are those of the base price of the first brand keyword, in
\* configuration order, found in the lowercased brand (15 when none is) and
\* of the multiplier of the first condition keyword found in the lowercased
\* condition (0.7 when none is), with 10 added to the probability only when
\* the base price is above 20.
C36_FirstKeywordWins ==
    \A i \in DOMAIN feed :
       feed[i].hasResult =>
          LET r == feed[i].result
              basePrice == FirstKeyword(brandPrices,
                                        OrElse(Get(r, "brand"), Str(<<>>))[2], 15)
              condMult == FirstKeyword(conditionMultipliers,
                                       OrElse(Get(r, "condition"), Str(<<>>))[2], 70)
              bonus == IF basePrice > 20 THEN 1000 ELSE 0
          IN  /\ r.maxProfitPrice
                    = Num(Max(3, RoundHundredths(basePrice * condMult + openai.rnd5)))
              /\ r.sellProbability
                    = Num(Min(99, Max(15, RoundHundredths(60 * condMult + openai.rnd20 + bonus))))

\* a result for "Gap x Nike" in "Very good" condition: priced as nike (22,
\* with the bonus) at the very-good multiplier
C36_Witness ==
    /\ feed # <<>>
    /\ feed[Len(feed)].hasResult
    /\ Get(feed[Len(feed)].result, "brand")
          = Str(<<"G", "a", "p", " ", "x", " ", "N", "i", "k", "e">>)
    /\ Get(feed[Len(feed)].result, "condition")
          = Str(<<"V", "e", "r", "y", " ", "g", "o", "o", "d">>)
    /\ openai.rnd5 = 0
    /\ openai.rnd20 = 0
    /\ feed[Len(feed)].result.maxProfitPrice = Num(15)
    /\ feed[Len(feed)].result.sellProbability = Num(52)

\* C37: in a session that has been reset (stage capture, no image, no flag)
\* while an add handler was still awaiting an enhance request, the step in
\* which that handler goes on leaves the stage capture, images empty and the
\* selection map empty.
C37_ResetIsolatesOldOperations ==
    [][\A o \in BagToSet(ops) :
          (/\ o.pc = "enhancing"
           /\ step = "capture" /\ images = <<>> /\ useEnhanced = EmptyFlags
           /\ CopiesIn(o, ops') < CopiesIn(o, ops))
          => (step' = "capture" /\ images' = <<>> /\ useEnhanced' = EmptyFlags)]_vars

\* the reading of the whole text of feed as one chunk
WholeRead ==
    ReadText([thrown |-> FALSE, message |-> <<>>, text |-> <<>>,
              hasResult |-> FALSE, result |-> EmptyObj], feed)

\* C38: however the text read so far was cut into chunks, and wherever the
\* next cut falls (in the middle of an event line too), the events processed
\* are those of the text read as one chunk, in the same order; the stream
\* text, the final result and the failure the reading ends with are those of
\* the whole text read as one chunk.
C38_ChunkingDoesNotMatter ==
    /\ \A r \in BagToSet(runs) :
          r.pc = "stream" =>
             LET rest == ReadText(AccOf(r), r.buffer \o r.events)
             IN  /\ streamingText \o rest.acc.text = WholeRead.acc.text
                 /\ rest.acc.thrown = WholeRead.acc.thrown
                 /\ rest.acc.message = WholeRead.acc.message
                 /\ rest.acc.hasResult = WholeRead.acc.hasResult
                 /\ rest.acc.result = WholeRead.acc.result
                 /\ rest.buffer = WholeRead.buffer
                 /\ \A n \in 1..Len(r.events) :
                       LET first == SplitLines(r.buffer \o SubSeq(r.events, 1, n))
                           second == SplitLines(first[Len(first)]
                                                \o SubSeq(r.events, n + 1, Len(r.events)))
                           both == SplitLines(r.buffer \o r.events)
                       IN  LineEvents(SubSeq(first, 1, Len(first) - 1))
                              \o LineEvents(SubSeq(second, 1, Len(second) - 1))
                           = LineEvents(SubSeq(both, 1, Len(both) - 1))
    /\ \A r \in BagToSet(runs) :
          r.pc = "save" =>
             /\ ~WholeRead.acc.thrown /\ WholeRead.acc.hasResult
             /\ r.finalResult = WholeRead.acc.result
             /\ streamingText = WholeRead.acc.text
    /\ (runs = EmptyBag /\ error # NoError) =>
          /\ streamingText = WholeRead.acc.text
          /\ error = DisplayedError(IF WholeRead.acc.thrown THEN WholeRead.acc.message
                                    ELSE MsgNoResult)
          /\ ~WholeRead.acc.thrown => ~WholeRead.acc.hasResult

\* a delta has been processed and the last chunk ended in the middle of the
\* next event line, after the first piece of its JSON text
C38_Witness ==
    \E r \in BagToSet(runs) :
       /\ r.pc = "stream"
       /\ streamingText # <<>>
       /\ Len(r.buffer) = 2
       /\ r.buffer[1] = <<"data: ">>
       /\ r.events # <<>>

\* C39: an analysis starts with the images the session holds at that moment;
\* the draft it stores has as many references as that list has images, the
\* i-th being a reference (original or enhanced, never null) of the i-th
\* image, so in the order in which the images were added, and its primary
\* reference is the first of them; every stored draft has at least one
\* reference, none null, the primary one first.
C39_OneReferencePerImage ==
    /\ [][/\ \A r \in BagToSet(runs') :
                CopiesIn(r, runs') > CopiesIn(r, runs) /\ r.pc = "key" =>
                   r.images = images /\ r.images # <<>>
          /\ drafts' # drafts =>
                \E r \in BagToSet(runs) :
                   /\ r.pc = "save"
                   /\ runs' = Without(runs, r)
                   /\ drafts' = Append(drafts, r.draft)
                   /\ Len(r.draft.imageUris) = Len(r.images)
                   /\ \A i \in DOMAIN r.images :
                         /\ r.draft.imageUris[i] # Null
                         /\ r.draft.imageUris[i] \in {r.images[i].originalUri,
                                                      r.images[i].enhancedUri}
                         /\ \A j \in 1..(i - 1) : r.images[j].id < r.images[i].id
                   /\ r.draft.imageUri = r.draft.imageUris[1]]_vars
    /\ [](\A k \in DOMAIN drafts :
             /\ drafts[k].imageUris # <<>>
             /\ \A i \in DOMAIN drafts[k].imageUris : drafts[k].imageUris[i] # Null
             /\ drafts[k].imageUri = drafts[k].imageUris[1])

\* a stored draft of two images: the original of the first, the enhanced
\* version of the second
C39_Witness ==
    /\ drafts # <<>>
    /\ drafts[1].imageUris = << <<"orig", 1>>, <<"enh", 2>> >>
    /\ drafts[1].imageUri = <<"orig", 1>>

\* the estimator's answer for the brand and condition of the model's text,
\* with the backend's two random draws
Estimate ==
    LET parsed == JSONParse(CleanContent(Concat(openai.chunks))).obj
    IN  generateUKPricing(OrElse(Get(parsed, "brand"), Str(<<>>))[2],
                          OrElse(Get(parsed, "condition"), Str(<<>>))[2],
                          openai.rnd5, openai.rnd20)

\* r carries the estimator's three values, and its maxProfitPrice as
\* suggestedPrice
EstimatorPriced(r) ==
    /\ Get(r, "quickSellPrice") = Estimate.quickSellPrice
    /\ Get(r, "maxProfitPrice") = Estimate.maxProfitPrice
    /\ Get(r, "sellProbability") = Estimate.sellProbability
    /\ Get(r, "suggestedPrice") = Estimate.maxProfitPrice

\* C40: the result of a terminal line the streaming route has written, and
\* the result the other route answers with for the same model text, carry
\* the estimator's quickSellPrice, maxProfitPrice and sellProbability and its
\* maxProfitPrice as suggestedPrice, whatever the model's text gives for
\* these four keys.
C40_ModelCannotSetPrice ==
    /\ \A i \in DOMAIN feed : feed[i].hasResult => EstimatorPriced(feed[i].result)
    /\ Analyze(NikeRequest, openai).hasResult =>
          EstimatorPriced(Analyze(NikeRequest, openai).result)

\* the model's text names all four pricing fields (900, 999, 100, 1) and the
\* result written carries the estimator's values for nike
C40_Witness ==
    /\ openai.chunks = ChunksAllPriced
    /\ feed # <<>>
    /\ feed[Len(feed)].hasResult
    /\ feed[Len(feed)].result.maxProfitPrice = Num(15)
    /\ feed[Len(feed)].result.suggestedPrice = Num(15)
    /\ feed[Len(feed)].result.quickSellPrice = Num(10)
    /\ feed[Len(feed)].result.sellProbability = Num(52)

====
